---- MODULE Spec2Model ----
(***************************************************************************)
(* A model of the org-mgmt Bitbucket reader (src/bb_reader.py), its        *)
(* scheduled worker (src/org_mgmt.py) and the manual refresh trigger of    *)
(* the presenter (src/presenter.py).                                       *)
(*                                                                         *)
(* Eight specifications share the module:                                  *)
(*   SpecSkeleton   _get_repo_names and _make_cache over bounded listings  *)
(*   SpecRest       _bb_rest_get, one page request per step                *)
(*   SpecRequest    _request, one GET attempt per step                     *)
(*   Spec           refresh cycles of the scheduled worker and of manual   *)
(*                  refresh threads over one shared reader object          *)
(*   SpecRefresh    one refresh cycle over the full set of file contents   *)
(*   SpecIsolation  one refresh cycle over a context of three orgs         *)
(*   SpecReaders    one refresh cycle with presenter queries on the cache  *)
(*   SpecWorker     bb_thread_worker and its timer, refresh as one step    *)
(*                                                                         *)
(* Python values are modelled as tagged records: Dict(f), List(s), None.   *)
(* Repository slugs, names and org identifiers are sequences of one-       *)
(* character strings, so that lower(), endswith() and slicing are          *)
(* computed.  Space names and dictionary keys of an org entry are strings. *)
(***************************************************************************)
EXTENDS Integers, Sequences, FiniteSets, TLC

VARIABLES
    \* ---- the reader object and the refresh threads (Spec, SpecRefresh)
    heap,              \* object id -> top-level cache object, or Unalloc
    writers,           \* history: object id -> the builds that stored into it
    _cache,            \* BBDirReader._cache: a reference (object id)
    _cache_timestamp,  \* BBDirReader._cache_timestamp
    _contexts,         \* BBDirReader._contexts
    clock,             \* time.time(), a logical clock
    pc,                \* thread -> position in bb_thread_worker / refresh
    loc,               \* thread -> the locals of refresh
    \* ---- one _request call (SpecRequest)
    rq,
    \* ---- one _bb_rest_get call (SpecRest)
    rg,
    \* ---- one _get_repo_names / _make_cache evaluation (SpecSkeleton)
    sk,
    \* ---- the scheduled worker and its timer (SpecWorker)
    wk,
    \* ---- the last presenter query and what it gave (SpecReaders)
    qr,
    \* ---- the construction of a BBDirReader (SpecConstruct)
    ct,
    \* ---- the endpoint registry of RESTObject (SpecRegistry)
    ep

vars == <<heap, writers, _cache, _cache_timestamp, _contexts, clock, pc, loc, rq, rg, sk,
          wk, qr, ct, ep>>
readerVars == <<heap, writers, _cache, _cache_timestamp, _contexts, clock, pc, loc>>

-----------------------------------------------------------------------------
(* Python values *)

None == [t |-> "None"]
Dict(f) == [t |-> "dict", d |-> f]
DefaultDict(f) == [t |-> "defaultdict", d |-> f]
List(s) == [t |-> "list", d |-> s]
EmptyMap == <<>>

Max(a, b) == IF a >= b THEN a ELSE b

\* the elements of a sequence
Range(s) == {s[i] : i \in DOMAIN s}

-----------------------------------------------------------------------------
(* Strings: sequences of one-character strings *)

LowerChar(c) ==
    CASE c = "A" -> "a"
      [] c = "B" -> "b"
      [] c = "O" -> "o"
      [] c = "R" -> "r"
      [] c = "G" -> "g"
      [] OTHER -> c

\* str.lower()
lower(s) == [i \in 1..Len(s) |-> LowerChar(s[i])]

\* str.endswith(suffix)
endswith(s, suffix) ==
    /\ Len(s) >= Len(suffix)
    /\ SubSeq(s, Len(s) - Len(suffix) + 1, Len(s)) = suffix

\* s[:-n] for n > 0
SliceOff(s, n) == SubSeq(s, 1, Max(Len(s) - n, 0))

\* the org marker: term = '-org' in _make_cache, the literal of _get_repo_names
term == <<"-", "o", "r", "g">>

-----------------------------------------------------------------------------
(* _get_repo_names and _make_cache *)

\* the list comprehension of _get_repo_names: slugs of the repositories whose
\* display name ends with '-org', in listing order
RECURSIVE NamedOrgSlugs(_)
NamedOrgSlugs(repo_vals) ==
    IF repo_vals = <<>> THEN <<>>
    ELSE LET v == Head(repo_vals)
             rest == NamedOrgSlugs(Tail(repo_vals))
         IN  IF endswith(v.name, term) THEN <<v.slug>> \o rest ELSE rest

\* _get_repo_names, given what _bb_rest_get returned for '<proj>/repos'
get_repo_names(repo_vals) ==
    IF repo_vals # <<>> THEN NamedOrgSlugs(repo_vals) ELSE <<>>

\* the key of one repository slug: r.lower()[:-len(term)]
OrgKey(r) == SliceOff(lower(r), Len(term))

\* a slip: the comprehension without its filter
KeepsSlug_Always(r) == TRUE

\* the filter of the dict comprehension of _make_cache
KeepsSlug(r) == endswith(r, term)

\* the keys of the dict comprehension, in insertion order (a key inserted
\* twice keeps its first position)
RECURSIVE SkeletonKeys(_, _)
SkeletonKeys(names, acc) ==
    IF names = <<>> THEN acc
    ELSE LET r == Head(names)
             k == OrgKey(r)
         IN  SkeletonKeys(Tail(names),
                          IF KeepsSlug(r) /\ k \notin Range(acc)
                          THEN Append(acc, k) ELSE acc)

\* one context's dictionary of _make_cache: {key: defaultdict(dict)}; k keeps
\* the insertion order of the keys, d maps each key to its (empty) entry
make_ctx(names) ==
    LET ks == SkeletonKeys(names, <<>>)
    IN  [t |-> "dict", k |-> ks, d |-> [key \in Range(ks) |-> EmptyMap]]

-----------------------------------------------------------------------------
(* Bounded inputs: repository listings *)

MaxRepos == 2
MaxListingPages == 2

S_a_org == <<"a", "-", "o", "r", "g">>
S_A_org == <<"A", "-", "o", "r", "g">>
S_b_org == <<"b", "-", "o", "r", "g">>
S_c_org == <<"c", "-", "o", "r", "g">>
S_b == <<"b">>
S_a_ORG == <<"a", "-", "O", "R", "G">>
S_org == <<"-", "o", "r", "g">>

RepoSlugs == {S_a_org, S_A_org, S_b_org, S_b, S_a_ORG, S_org}
RepoNames == {S_a_org, S_b_org, S_b, S_a_ORG}
Repos == [slug : RepoSlugs, name : RepoNames]

SeqsUpTo(S, n) == UNION {[1..m -> S] : m \in 0..n}

-----------------------------------------------------------------------------
(* SpecSkeleton: _get_repo_names then _make_cache on one listing *)

SkelInit ==
    /\ sk \in [listing : SeqsUpTo(Repos, MaxRepos), pc : {"listed"},
               names : {<<>>}, ctx : {None}, sluglist : {<<>>}]

SkelGetRepoNames ==
    /\ sk.pc = "listed"
    /\ sk' = [sk EXCEPT !.pc = "named", !.names = get_repo_names(sk.listing)]
    /\ UNCHANGED <<readerVars, rq, rg, wk, qr, ct, ep>>

SkelMakeCache ==
    /\ sk.pc = "named"
    /\ sk' = [sk EXCEPT !.pc = "made", !.ctx = make_ctx(sk.names)]
    /\ UNCHANGED <<readerVars, rq, rg, wk, qr, ct, ep>>

-----------------------------------------------------------------------------
(* _bb_rest_get: the paginated listing, one page request per step *)

MaxPages == 3
MaxValues == 1

Items == {"x", "y"}
NextStarts == {0, 25}
PageValues == SeqsUpTo(Items, MaxValues)

\* a well-formed page of the Bitbucket REST protocol
GoodPages == [isLastPage : BOOLEAN, nextPageStart : NextStarts, values : PageValues]
\* JSON objects that lack one of the three fields
BadPages ==
    [isLastPage : BOOLEAN, nextPageStart : NextStarts]
    \cup [isLastPage : BOOLEAN, values : PageValues]
    \cup [nextPageStart : NextStarts, values : PageValues]

\* what one call self._request(url, return_json=True) can do
Raise(e) == [raised |-> TRUE, exc |-> e]
Return(v) == [raised |-> FALSE, val |-> v]
RequestErrors == {"BBRequestAuthFail", "RequestNotOK", "Exception"}
PageOutcomes == {Raise(e) : e \in RequestErrors} \cup {Return(p) : p \in GoodPages \cup BadPages}

HasKey(d, k) == k \in DOMAIN d

\* 'return rtn or []'
OrEmptyList(rtn) == IF rtn = <<>> THEN <<>> ELSE rtn

\* the state after lines 178-181: rsp preset, rtn = []
RestStart ==
    [pc |-> "loop", rsp |-> [isLastPage |-> FALSE, nextPageStart |-> 0],
     rtn |-> <<>>, nreq |-> 0, start |-> -1, pages |-> <<>>, exc |-> "none",
     ret |-> <<>>]

\* a slip: the except clauses inside the loop, which then goes on
RestExcept_Continue(g, e) == [g EXCEPT !.exc = e]

\* a slip: the except clauses re-raise
RestExcept_Raise(g, e) == [g EXCEPT !.pc = "raised", !.exc = e]

\* the except clauses and the return statement
RestExcept(g, e) == [g EXCEPT !.pc = "returned", !.exc = e, !.ret = OrEmptyList(g.rtn)]

\* a slip: rtn = rsp['values']
Extend_Assign(rtn, values) == values

\* rtn.extend(rsp['values'])
Extend(rtn, values) == rtn \o values

\* one iteration of the while loop, the loop condition having been true:
\* format the url, call _request, extend rtn, evaluate the condition again
RestIteration(g, out) ==
    IF ~HasKey(g.rsp, "nextPageStart") THEN RestExcept(g, "KeyError")
    ELSE LET asked == [g EXCEPT !.nreq = @ + 1, !.start = g.rsp.nextPageStart]
         IN  IF out.raised THEN RestExcept(asked, out.exc)
             ELSE LET rsp == out.val
                  IN  IF ~HasKey(rsp, "values")
                      THEN RestExcept([asked EXCEPT !.rsp = rsp], "KeyError")
                      ELSE LET got == [asked EXCEPT
                                         !.rsp = rsp,
                                         !.rtn = Extend(@, rsp.values),
                                         !.pages = Append(@, rsp.values)]
                           IN  IF ~HasKey(rsp, "isLastPage")
                               THEN RestExcept(got, "KeyError")
                               ELSE IF rsp.isLastPage
                               THEN [got EXCEPT !.pc = "returned",
                                                !.ret = OrEmptyList(got.rtn)]
                               ELSE got

\* a whole call of _bb_rest_get, given what its page requests do in turn
RECURSIVE bb_rest_get(_, _)
bb_rest_get(g, outs) ==
    IF g.pc # "loop" \/ outs = <<>> THEN g
    ELSE bb_rest_get(RestIteration(g, Head(outs)), Tail(outs))

RestInit == rg = RestStart

\* a page request; MaxPages caps the number of requests of one call
RestPage ==
    /\ rg.pc = "loop"
    /\ rg.nreq < MaxPages
    /\ \E out \in PageOutcomes : rg' = RestIteration(rg, out)
    /\ UNCHANGED <<readerVars, rq, sk, wk, qr, ct, ep>>

-----------------------------------------------------------------------------
(* _request: one GET attempt or one token acquisition per step *)

MaxCalls == 2

\* the bodies of responses: one that is JSON and one that is not
Bodies == {"{}", "text"}

\* what requests.get can do: raise SSLError, raise another transport error,
\* or return a response with a status and a body
GetOutcomes ==
    {[kind |-> "SSLError"], [kind |-> "OtherError"]}
    \cup [kind : {"response"}, status : {200, 404}, body : Bodies]

\* rsp.json(): the parser raises on a body that is not JSON
rsp_json(rsp) ==
    IF rsp.body = "{}" THEN Return([json |-> rsp.body]) ELSE Raise("JSONDecodeError")

\* rsp.json() if return_json else rsp.text
Body(rsp, return_json) ==
    IF return_json THEN rsp_json(rsp) ELSE Return([text |-> rsp.body])

RequestIdle ==
    [pc |-> "idle", calls |-> 0, url |-> "none", return_json |-> FALSE,
     retry |-> FALSE, gets |-> 0, reauths |-> 0, ssl |-> 0, token |-> 1, issued |-> 1,
     sent |-> 0, got |-> None, out |-> None]

\* a slip: the clause without its test of _retry_
OnSSLError_Unbounded(r) == [r EXCEPT !.pc = "reauth"]

\* the except SSLError clause
OnSSLError(r) ==
    IF ~r.retry THEN [r EXCEPT !.pc = "reauth"]
    ELSE [r EXCEPT !.pc = "raised", !.out = Raise("BBRequestAuthFail")]

\* the bare except clause: its logging call reads rsp, which requests.get
\* never bound, so the clause itself raises and 'raise' is not reached
OnOtherError(r) == [r EXCEPT !.pc = "raised", !.out = Raise("UnboundLocalError")]

\* a slip: a status other than 200 handled like the SSL error
OnResponse_Reauth(r, rsp) ==
    IF rsp.status = 200
    THEN LET rtn == Body(rsp, r.return_json)
         IN  [r EXCEPT !.pc = IF rtn.raised THEN "raised" ELSE "returned", !.out = rtn]
    ELSE OnSSLError(r)

\* the else clause of the try statement
OnResponse(r, rsp) ==
    IF rsp.status = 200
    THEN LET rtn == Body(rsp, r.return_json)
         IN  [r EXCEPT !.pc = IF rtn.raised THEN "raised" ELSE "returned", !.out = rtn]
    ELSE [r EXCEPT !.pc = "raised", !.out = Raise("RequestNotOK")]

\* requests.get(url, headers=self._http_header, ...) and the clause it selects
RequestAttempt(r, o) ==
    LET sent == [r EXCEPT !.gets = @ + 1, !.sent = r.token, !.got = o,
                          !.ssl = IF o.kind = "SSLError" THEN @ + 1 ELSE @]
    IN  CASE o.kind = "SSLError" -> OnSSLError(sent)
          [] o.kind = "OtherError" -> OnOtherError(sent)
          [] OTHER -> OnResponse(sent, o)

\* a slip: the new token is not assigned to self._auth_token
Reacquire_Discard(r, ok) ==
    IF ok THEN [r EXCEPT !.pc = "get", !.retry = TRUE, !.reauths = @ + 1,
                         !.issued = @ + 1]
    ELSE [r EXCEPT !.pc = "raised", !.reauths = @ + 1, !.out = Raise("TokenError")]

\* self._auth_token = self._get_oauth_token(...), then the recursive call
\* with _retry_=True; a failing token exchange propagates
Reacquire(r, ok) ==
    IF ok THEN [r EXCEPT !.pc = "get", !.retry = TRUE, !.reauths = @ + 1,
                         !.issued = @ + 1, !.token = r.issued + 1]
    ELSE [r EXCEPT !.pc = "raised", !.reauths = @ + 1, !.out = Raise("TokenError")]

RequestInit == rq = RequestIdle

\* a caller enters _request(url, return_json)
RequestCall ==
    /\ rq.pc \in {"idle", "returned", "raised"}
    /\ rq.calls < MaxCalls
    /\ \E u \in {"u1", "u2"}, j \in BOOLEAN :
         rq' = [rq EXCEPT !.pc = "get", !.calls = @ + 1, !.url = u,
                          !.return_json = j, !.retry = FALSE, !.gets = 0,
                          !.reauths = 0, !.ssl = 0, !.sent = 0, !.got = None,
                          !.out = None]
    /\ UNCHANGED <<readerVars, rg, sk, wk, qr, ct, ep>>

RequestGet ==
    /\ rq.pc = "get"
    /\ \E o \in GetOutcomes : rq' = RequestAttempt(rq, o)
    /\ UNCHANGED <<readerVars, rg, sk, wk, qr, ct, ep>>

RequestReauth ==
    /\ rq.pc = "reauth"
    /\ \E ok \in BOOLEAN : rq' = Reacquire(rq, ok)
    /\ UNCHANGED <<readerVars, rg, sk, wk, qr, ct, ep>>

-----------------------------------------------------------------------------
(* Files: _bb_get_file and _load_bb_file *)

\* A file's text is described by its syntax and by the value it denotes.
\* "json" text is also valid YAML; "yaml" text is not valid JSON; "bad" text
\* is valid in neither; the empty text is ''.
EmptyText == [syntax |-> "empty"]
Text(syntax, v) == [syntax |-> syntax, v |-> v]
Scalar == [t |-> "str"]

\* yaml.load(file_content)
yaml_load(text) ==
    CASE text.syntax = "empty" -> Return(None)
      [] text.syntax = "bad" -> Raise("YAMLError")
      [] OTHER -> Return(text.v)

\* json.loads(file_content)
json_loads(text) ==
    IF text.syntax = "json" THEN Return(text.v) ELSE Raise("JSONDecodeError")

\* _bb_get_file, given what self._request(url) did: every exception is
\* logged and swallowed, and 'rtn or ""' is returned
bb_get_file(answer) ==
    IF answer.raised THEN EmptyText ELSE answer.val

\* a slip: the test of the deserialized value is left out
IsDictOrList_Any(v) == TRUE

\* isinstance(content_dict, (dict, list))
IsDictOrList(v) == v.t \in {"dict", "list"}

\* a slip: _bb_get_file catches the two exceptions of _request only
load_bb_file_Propagate(answer, json_content) ==
    IF answer.raised /\ answer.exc \notin {"BBRequestAuthFail", "RequestNotOK"}
    THEN Raise(answer.exc)
    ELSE LET file_content == bb_get_file(answer)
             parsed == IF json_content THEN json_loads(file_content)
                       ELSE yaml_load(file_content)
         IN  IF parsed.raised THEN Raise("BBFileLoadFailure")
             ELSE IF ~IsDictOrList(parsed.val) THEN Raise("BBFileLoadFailure")
             ELSE Return(parsed.val)

\* _load_bb_file, given what self._request(url) did
load_bb_file(answer, json_content) ==
    LET file_content == bb_get_file(answer)
        parsed == IF json_content THEN json_loads(file_content)
                  ELSE yaml_load(file_content)
    IN  IF parsed.raised THEN Raise("BBFileLoadFailure")
        ELSE IF ~IsDictOrList(parsed.val) THEN Raise("BBFileLoadFailure")
        ELSE Return(parsed.val)

-----------------------------------------------------------------------------
(* Bounded inputs: file contents *)

N_a == <<"a">>
N_A == <<"A">>
N_b == <<"b">>
N_z == <<"z">>

\* orgConfig.yml
OrgConfig(n) == Dict([org |-> n, tag |-> "t"])
OrgConfigNoOrg == Dict([tag |-> "t"])
\* spaces.yml
Spaces(ss) == Dict([spaces |-> ss])
SpacesNoSpaces == Dict([org |-> N_a])
\* <space>/security-group.json and <space>/spaceConfig.yml
SecurityGroup(n) == List(<<[dest |-> n]>>)
SpaceConfig(n) == Dict([cfg |-> n])

\* what _request can raise to _bb_get_file: its own two exceptions, the error
\* of the bare except clause, the error of a failed token exchange
RequestRaises == {"BBRequestAuthFail", "RequestNotOK", "UnboundLocalError", "TokenError"}
Failures == {Raise(e) : e \in RequestRaises}

\* the answers of the raw-file requests of one refresh cycle
FullAnswers ==
    [org |-> Failures
             \cup {Return(Text("yaml", OrgConfig(n))) : n \in {N_A, N_b, N_z}}
             \cup {Return(Text("yaml", v)) : v \in {OrgConfigNoOrg, List(<<>>), Scalar}}
             \cup {Return(EmptyText), Return(Text("bad", None))},
     spaces |-> {Raise("RequestNotOK"), Raise("UnboundLocalError"), Return(EmptyText)}
             \cup {Return(Text("yaml", Spaces(ss))) :
                     ss \in {<<>>, <<"s1", "s2">>, <<"org">>}}
             \cup {Return(Text("yaml", v)) : v \in {SpacesNoSpaces, List(<<>>)}},
     security |-> {Raise("RequestNotOK"), Return(Text("yaml", SecurityGroup(1)))}
             \cup {Return(Text("json", SecurityGroup(n))) : n \in {1, 2}},
     space_config |-> {Raise("RequestNotOK"), Return(Text("bad", None)),
                       Return(Text("yaml", SpaceConfig(1)))},
     listing |-> {<<>>,
                  <<[slug |-> S_a_org, name |-> S_a_org]>>,
                  <<[slug |-> S_b_org, name |-> S_b_org],
                    [slug |-> S_a_org, name |-> S_a_org]>>,
                  <<[slug |-> S_A_org, name |-> S_a_org],
                    [slug |-> S_b, name |-> S_b]>>}]

\* three orgs of one context, two of which may declare the same identifier
IsolationAnswers ==
    [org |-> {Raise("RequestNotOK"), Return(Text("yaml", OrgConfig(N_A))),
              Return(Text("yaml", OrgConfig(N_b)))},
     spaces |-> {Raise("RequestNotOK")}
             \cup {Return(Text("yaml", Spaces(ss))) : ss \in {<<>>, <<"s1">>}},
     security |-> {Return(Text("json", SecurityGroup(1)))},
     space_config |-> {Return(Text("yaml", SpaceConfig(1)))},
     listing |-> {<<[slug |-> S_c_org, name |-> S_c_org],
                    [slug |-> S_a_org, name |-> S_a_org],
                    [slug |-> S_b_org, name |-> S_b_org]>>}]

\* the page requests of the listing of one context: a run is what the
\* successive requests of one call of _bb_rest_get do, up to its return
Repo(slug) == [slug |-> slug, name |-> slug]
ListingPages ==
    [isLastPage : BOOLEAN, nextPageStart : {25},
     values : {<<Repo(S_a_org)>>, <<Repo(S_b_org)>>}]
ListingOutcomes == {Raise("RequestNotOK")} \cup {Return(p) : p \in ListingPages}
ListingRuns ==
    {outs \in SeqsUpTo(ListingOutcomes, MaxListingPages) :
        /\ outs # <<>>
        /\ bb_rest_get(RestStart, outs).pc = "returned"
        /\ bb_rest_get(RestStart, outs).nreq = Len(outs)}

\* two contexts with paginated listings, and files that load or fail
ListingAnswers ==
    [org |-> {Raise("RequestNotOK"), Return(Text("yaml", OrgConfig(N_a)))},
     spaces |-> {Return(Text("yaml", Spaces(ss))) : ss \in {<<>>, <<"s1">>}},
     security |-> {Return(Text("json", SecurityGroup(1)))},
     space_config |-> {Return(Text("yaml", SpaceConfig(1)))},
     listing |-> {<<>>, <<Repo(S_a_org)>>}]

\* the smaller set used where two refreshes interleave
RaceAnswers ==
    [org |-> {Raise("RequestNotOK"), Return(Text("yaml", OrgConfig(N_a))),
              Return(Text("yaml", OrgConfig(N_z)))},
     spaces |-> {Return(Text("yaml", Spaces(<<"s1">>)))},
     security |-> {Return(Text("json", SecurityGroup(1)))},
     space_config |-> {Return(Text("yaml", SpaceConfig(1)))},
     listing |-> {<<[slug |-> S_a_org, name |-> S_a_org]>>,
                  <<[slug |-> S_b_org, name |-> S_b_org],
                    [slug |-> S_a_org, name |-> S_a_org]>>}]

-----------------------------------------------------------------------------
(* The cache objects *)

Threads == {"sched", "manual"}
ObjectIds == {1, 2, 3, 4}
NoRef == 0
Unalloc == [t |-> "unalloc"]

\* d with key k set to v
SetKey(d, k, v) == [x \in DOMAIN d \cup {k} |-> IF x = k THEN v ELSE d[x]]

\* a new object
FreshId(h) ==
    CHOOSE i \in ObjectIds :
        /\ h[i] = Unalloc
        /\ \A j \in ObjectIds : h[j] = Unalloc => i <= j

\* a slip: _make_cache empties and refills the published object
NewCacheObject_InPlace(h, published) == published

\* a slip: once a dict has been published, _make_cache refills it
NewCacheObject_Reuse(h, published) ==
    IF h[published].t = "dict" THEN published ELSE FreshId(h)

\* cache_obj = CacheObject() in _make_cache: the object a refresh builds in
\* is a new one, whatever self._cache refers to
NewCacheObject(h, published) == FreshId(h)

\* the content _make_cache gives the object, from what _bb_rest_get returned
\* for each context
make_cache(contexts, listing) ==
    [t |-> "CacheObject",
     d |-> [c \in Range(contexts) |-> make_ctx(get_repo_names(listing[c]))]]

\* dict(new_cache)
AsDict(c) == [t |-> "dict", d |-> c.d]

\* sluglist = ["{}-org".format(r) for r in repolist]
SlugList(repolist) == [i \in 1..Len(repolist.k) |-> repolist.k[i] \o term]

\* objects no reference reaches are dropped
Collect(h, refs, empty) == [i \in ObjectIds |-> IF i \in refs THEN h[i] ELSE empty]

-----------------------------------------------------------------------------
(* refresh: the statements between two file loads *)

\* odict['org'].lower() of lines 320-321, given the loaded orgConfig.yml
\* a slip: odict.get('org', '') in place of odict['org']
DeclaredRepo_Get(odict) ==
    IF odict.t # "dict" THEN Raise("TypeError")
    ELSE Return(lower(IF HasKey(odict.d, "org") THEN odict.d.org ELSE <<>>))

DeclaredRepo(odict) ==
    IF odict.t # "dict" THEN Raise("TypeError")
    ELSE IF ~HasKey(odict.d, "org") THEN Raise("KeyError")
    ELSE Return(lower(odict.d.org))

\* a slip: only 'space' is stored
StoreOrgSpace_NoOrg(c, context, repo, odict, sdict) ==
    IF repo \notin DOMAIN c.d[context].d THEN Raise("KeyError")
    ELSE Return([c EXCEPT !.d[context].d[repo] = SetKey(@, "space", sdict)])

\* lines 335-336: new_cache[context][repo]['org'] = odict, then ['space'] =
\* sdict.  new_cache[context] is a plain dict, so a repo that is no key of
\* it raises KeyError before anything is stored.
StoreOrgSpace(c, context, repo, odict, sdict) ==
    IF repo \notin DOMAIN c.d[context].d THEN Raise("KeyError")
    ELSE Return([c EXCEPT !.d[context].d[repo] =
                    SetKey(SetKey(@, "org", odict), "space", sdict)])

\* line 338: the iterable new_cache[context][repo]['space']['spaces'].  The
\* default sdict is a defaultdict(dict): the lookup stores an empty dict
\* under 'spaces' and iterates over it.
SpacesIterable(c, context, repo) ==
    LET sdict == c.d[context].d[repo]["space"]
    IN  CASE sdict.t = "defaultdict" ->
               [raised |-> FALSE, val |-> <<>>,
                cache |-> [c EXCEPT !.d[context].d[repo]["space"] =
                             DefaultDict(SetKey(sdict.d, "spaces", Dict(EmptyMap)))]]
          [] sdict.t = "list" -> Raise("TypeError")
          [] ~HasKey(sdict.d, "spaces") -> Raise("KeyError")
          [] OTHER -> [raised |-> FALSE, val |-> sdict.d.spaces, cache |-> c]

\* history: one call of _load_bb_file, what its request did and what it gave
LoadRec(context, slug, repo, file, space, json_content, answer, r) ==
    [context |-> context, slug |-> slug, repo |-> repo, file |-> file, space |-> space,
     json_content |-> json_content, answer |-> answer, ok |-> ~r.raised,
     exc |-> IF r.raised THEN r.exc ELSE "none",
     val |-> IF r.raised THEN None ELSE r.val]

\* a slip of the except clause: each load falls back to None on its own
LoadPairOf_Unpaired(context, slug, repo, space, sec_answer, spc_answer) ==
    LET sec == load_bb_file(sec_answer, TRUE)
        spc == load_bb_file(spc_answer, FALSE)
        sec_rec == LoadRec(context, slug, repo, "security-group.json", space, TRUE,
                           sec_answer, sec)
        spc_rec == LoadRec(context, slug, repo, "spaceConfig.yml", space, FALSE,
                           spc_answer, spc)
    IN  [sec_dict |-> IF sec.raised THEN None ELSE sec.val,
         spc_dict |-> IF spc.raised THEN None ELSE spc.val,
         loads |-> <<sec_rec, spc_rec>>]

\* a slip: spaceConfig.yml is requested before security-group.json
LoadPairOf_YamlFirst(context, slug, repo, space, sec_answer, spc_answer) ==
    LET sec == load_bb_file(sec_answer, TRUE)
        spc == load_bb_file(spc_answer, FALSE)
        sec_rec == LoadRec(context, slug, repo, "security-group.json", space, TRUE,
                           sec_answer, sec)
        spc_rec == LoadRec(context, slug, repo, "spaceConfig.yml", space, FALSE,
                           spc_answer, spc)
    IN  IF spc.raised
        THEN [sec_dict |-> None, spc_dict |-> None, loads |-> <<spc_rec>>]
        ELSE IF sec.raised
        THEN [sec_dict |-> None, spc_dict |-> None, loads |-> <<spc_rec, sec_rec>>]
        ELSE [sec_dict |-> sec.val, spc_dict |-> spc.val,
              loads |-> <<spc_rec, sec_rec>>]

\* lines 339-352: the two loads of one space, in one try statement; the
\* second file is not requested when the first load fails
LoadPairOf(context, slug, repo, space, sec_answer, spc_answer) ==
    LET sec == load_bb_file(sec_answer, TRUE)
        spc == load_bb_file(spc_answer, FALSE)
        sec_rec == LoadRec(context, slug, repo, "security-group.json", space, TRUE,
                           sec_answer, sec)
        spc_rec == LoadRec(context, slug, repo, "spaceConfig.yml", space, FALSE,
                           spc_answer, spc)
    IN  IF sec.raised
        THEN [sec_dict |-> None, spc_dict |-> None, loads |-> <<sec_rec>>]
        ELSE IF spc.raised
        THEN [sec_dict |-> None, spc_dict |-> None, loads |-> <<sec_rec, spc_rec>>]
        ELSE [sec_dict |-> sec.val, spc_dict |-> spc.val,
              loads |-> <<sec_rec, spc_rec>>]

\* lines 353-354: new_cache[context][repo][space]['security'] = sec_dict and
\* ['space_config'] = spc_dict; the entry is a defaultdict(dict)
StorePair(c, context, repo, space, pair) ==
    LET entry == c.d[context].d[repo]
        old == IF HasKey(entry, space) THEN entry[space] ELSE Dict(EmptyMap)
        new == [old EXCEPT !.d = SetKey(SetKey(@, "security", pair.sec_dict),
                                        "space_config", pair.spc_dict)]
    IN  [c EXCEPT !.d[context].d[repo] = SetKey(entry, space, new)]

-----------------------------------------------------------------------------
(* refresh: the threads *)

MaxCycles == 1

NoLocals ==
    [new_cache |-> NoRef, ctxs |-> <<>>, context |-> "none", sluglist |-> <<>>,
     slug |-> <<>>, odict |-> None, repo |-> <<>>, spaces |-> <<>>,
     exc |-> "none", runs |-> 0, log |-> <<>>, listings |-> <<>>]

Building == {"org", "spaces", "pair"}

\* the position of the three nested for loops after the current body ends
RECURSIVE Advance(_, _)
Advance(l, c) ==
    IF l.spaces # <<>> THEN [pc |-> "pair", l |-> l]
    ELSE IF l.sluglist # <<>>
    THEN [pc |-> "org",
          l |-> [l EXCEPT !.slug = Head(l.sluglist), !.sluglist = Tail(@),
                          !.odict = None, !.repo = <<>>]]
    ELSE IF l.ctxs # <<>>
    THEN Advance([l EXCEPT !.context = Head(l.ctxs), !.ctxs = Tail(@),
                           !.sluglist = SlugList(c.d[Head(l.ctxs)])], c)
    ELSE [pc |-> "swap", l |-> [l EXCEPT !.odict = None, !.repo = <<>>, !.slug = <<>>]]

\* a slip: 'break' in place of 'continue'
OnOrgLoadFailure_Break(l, c) == Advance([l EXCEPT !.sluglist = <<>>], c)

\* a slip: the failed orgConfig.yml is requested again
OnOrgLoadFailure_Retry(l, c) == [pc |-> "org", l |-> l]

\* lines 322-327: both except clauses log and 'continue' with the next slug
OnOrgLoadFailure(l, c) == Advance(l, c)

Refs(cache, l) == ({cache} \cup {l[t].new_cache : t \in Threads}) \ {NoRef}

\* thread t moves to position p with locals l, the heap becoming h; the
\* objects out of reach are dropped
Move(t, p, l, h, w, published) ==
    LET ls == [loc EXCEPT ![t] = l]
    IN  /\ pc' = [pc EXCEPT ![t] = p]
        /\ loc' = ls
        /\ _cache' = published
        /\ heap' = Collect(h, Refs(published, ls), Unalloc)
        /\ writers' = Collect(w, Refs(published, ls), {})
        /\ UNCHANGED <<_contexts, rq, rg, sk, wk, ct, ep>>

\* history: the builds (thread, run) whose stores an object holds
Build(t, n) == <<t, n>>
Wrote(t, id) == [writers EXCEPT ![id] = @ \cup {Build(t, loc[t].runs)}]

\* the value of time.time(); history: the build that wrote it
Time(n, b) == [t |-> "float", v |-> n, by |-> b]

\* the state after BBDirReader.__init__: the skeleton built by _make_cache
\* is published, no timestamp; the worker's first timer is pending
ReaderInit(A, ContextLists) ==
    /\ _contexts \in ContextLists
    /\ \E listing \in [Range(_contexts) -> A.listing] :
         heap = [i \in ObjectIds |->
                   IF i = 1 THEN make_cache(_contexts, listing) ELSE Unalloc]
    /\ writers = [i \in ObjectIds |-> IF i = 1 THEN {Build("init", 0)} ELSE {}]
    /\ _cache = 1
    /\ _cache_timestamp = None
    /\ clock = 0
    /\ pc = [t \in Threads |-> IF t = "sched" THEN "timer" ELSE "idle"]
    /\ loc = [t \in Threads |-> NoLocals]

\* threading.Timer fires: bb_thread_worker runs and calls refresh
TimerFires(max) ==
    /\ pc["sched"] = "timer"
    /\ loc["sched"].runs < max
    /\ Move("sched", "refresh", [NoLocals EXCEPT !.runs = loc["sched"].runs + 1],
            heap, writers, _cache)
    /\ UNCHANGED <<_cache_timestamp, clock, qr>>

NoOrg == <<>>

\* the arguments of a query; NoOrg and "none" stand for an argument the
\* handler does not have or was not given
Args(context, org, space) == [context |-> context, org |-> org, space |-> space]
NoArgs == Args("none", NoOrg, "none")

\* a slip: the test of self._cache_refresh is left out
Starts_Always(cache_refresh) == TRUE

\* presenter.py line 74: if self._cache_refresh
Starts(cache_refresh) == cache_refresh

\* OrgMgmtREST._refresh_cache: when a callback is configured,
\* Thread(target=self._cache_refresh).start() and the return of the message;
\* otherwise nothing is started and None is returned.  The started thread is
\* thread t, at the entry of refresh.
ManualRefresh(t, max) ==
    /\ t # "sched"
    /\ pc[t] = "idle"
    /\ loc[t].runs < max
    /\ IF Starts(qr.cache_refresh)
       THEN /\ Move(t, "refresh", [NoLocals EXCEPT !.runs = loc[t].runs + 1],
                    heap, writers, _cache)
            /\ qr' = [qr EXCEPT !.query = "_refresh_cache", !.args = NoArgs, !.raised = FALSE,
                                !.exc = "none", !.rtn = "Cache refresh in progress"]
       ELSE /\ qr' = [qr EXCEPT !.query = "_refresh_cache", !.args = NoArgs, !.raised = FALSE,
                                !.exc = "none", !.rtn = "None"]
            /\ UNCHANGED <<heap, writers, _cache, _contexts, pc, loc, rq, rg, sk, wk, ct, ep>>
    /\ UNCHANGED <<_cache_timestamp, clock>>

\* line 300: new_cache = self._make_cache(), and the entry into the loops.
\* The object is reachable by this thread alone while _make_cache fills it.
MakeCache(t, A) ==
    /\ pc[t] = "refresh"
    /\ \E listing \in [Range(_contexts) -> A.listing] :
         LET id == NewCacheObject(heap, _cache)
             c == make_cache(_contexts, listing)
             adv == Advance([loc[t] EXCEPT !.new_cache = id, !.ctxs = _contexts], c)
         IN  Move(t, adv.pc, adv.l, [heap EXCEPT ![id] = c],
                  [writers EXCEPT ![id] = {Build(t, loc[t].runs)}], _cache)
    /\ UNCHANGED <<_cache_timestamp, clock, qr>>

\* history: the call of _bb_rest_get for the i-th context and what it gave
ListingRec(contexts, runs, i) ==
    LET g == bb_rest_get(RestStart, runs[contexts[i]])
    IN  [context |-> contexts[i], nreq |-> g.nreq, exc |-> g.exc, ret |-> g.ret]

\* line 300 again, with the listing of each context made of page requests
MakeCachePaged(t, Runs) ==
    /\ pc[t] = "refresh"
    /\ \E runs \in [Range(_contexts) -> Runs] :
         LET id == NewCacheObject(heap, _cache)
             listings == [i \in DOMAIN _contexts |-> ListingRec(_contexts, runs, i)]
             listing == [c \in Range(_contexts) |->
                           bb_rest_get(RestStart, runs[c]).ret]
             c == make_cache(_contexts, listing)
             adv == Advance([loc[t] EXCEPT !.new_cache = id, !.ctxs = _contexts,
                                           !.listings = listings], c)
         IN  Move(t, adv.pc, adv.l, [heap EXCEPT ![id] = c],
                  [writers EXCEPT ![id] = {Build(t, loc[t].runs)}], _cache)
    /\ UNCHANGED <<_cache_timestamp, clock, qr>>

\* lines 319-327: load orgConfig.yml and read the declared org
LoadOrgConfig(t, A) ==
    /\ pc[t] = "org"
    /\ \E answer \in A.org :
         LET l == loc[t]
             c == heap[l.new_cache]
             r == load_bb_file(answer, FALSE)
             ll == [l EXCEPT !.log = Append(@, LoadRec(l.context, l.slug,
                                   l.repo, "orgConfig.yml", "none", FALSE, answer, r))]
             continue == OnOrgLoadFailure(ll, c)
         IN  IF r.raised THEN Move(t, continue.pc, continue.l, heap, writers, _cache)
             ELSE LET d == DeclaredRepo(r.val)
                  IN  IF d.raised /\ d.exc = "KeyError"
                      THEN Move(t, continue.pc, continue.l, heap, writers, _cache)
                      ELSE IF d.raised
                      THEN Move(t, "raised", [ll EXCEPT !.exc = d.exc],
                                heap, writers, _cache)
                      ELSE Move(t, "spaces", [ll EXCEPT !.odict = r.val, !.repo = d.val],
                                heap, writers, _cache)
    /\ UNCHANGED <<_cache_timestamp, clock, qr>>

\* lines 329-338: load spaces.yml, store 'org' and 'space', enter the loop
\* over the spaces
LoadSpaces(t, A) ==
    /\ pc[t] = "spaces"
    /\ \E answer \in A.spaces :
         LET id == loc[t].new_cache
             r == load_bb_file(answer, FALSE)
             l == [loc[t] EXCEPT !.log = Append(@, LoadRec(loc[t].context,
                     loc[t].slug, loc[t].repo, "spaces.yml", "none", FALSE,
                     answer, r))]
             sdict == IF r.raised THEN DefaultDict(EmptyMap) ELSE r.val
             st == StoreOrgSpace(heap[id], l.context, l.repo, l.odict, sdict)
         IN  IF st.raised
             THEN Move(t, "raised", [l EXCEPT !.exc = st.exc], heap, writers, _cache)
             ELSE LET it == SpacesIterable(st.val, l.context, l.repo)
                  IN  IF it.raised
                      THEN Move(t, "raised", [l EXCEPT !.exc = it.exc],
                                [heap EXCEPT ![id] = st.val], Wrote(t, id), _cache)
                      ELSE LET adv == Advance([l EXCEPT !.spaces = it.val], it.cache)
                           IN  Move(t, adv.pc, adv.l, [heap EXCEPT ![id] = it.cache],
                                    Wrote(t, id), _cache)
    /\ UNCHANGED <<_cache_timestamp, clock, qr>>

\* lines 339-354: the two files of one space
LoadPair(t, A) ==
    /\ pc[t] = "pair"
    /\ \E sec_answer \in A.security, spc_answer \in A.space_config :
         LET l == loc[t]
             id == l.new_cache
             pair == LoadPairOf(l.context, l.slug, l.repo, Head(l.spaces),
                                sec_answer, spc_answer)
             c == StorePair(heap[id], l.context, l.repo, Head(l.spaces), pair)
             adv == Advance([l EXCEPT !.spaces = Tail(@), !.log = @ \o pair.loads], c)
         IN  Move(t, adv.pc, adv.l, [heap EXCEPT ![id] = c], Wrote(t, id), _cache)
    /\ UNCHANGED <<_cache_timestamp, clock, qr>>

\* a slip: self._cache.update(new_cache), which refills the published object
Replace_Update(h, w, published, built) ==
    [ref |-> published,
     heap |-> [h EXCEPT ![published] = [t |-> h[published].t, d |-> h[built].d]],
     writers |-> [w EXCEPT ![published] = @ \cup w[built]]]

\* a slip: the entries the new cache left empty are filled from the
\* published cache
Replace_Merge(h, w, published, built) ==
    LET id == FreshId(h)
        old == h[published].d
        new == h[built].d
        merged == [c \in DOMAIN new |->
                     [new[c] EXCEPT !.d =
                        [k \in DOMAIN new[c].d |->
                           IF new[c].d[k] = <<>> /\ c \in DOMAIN old
                                                /\ k \in DOMAIN old[c].d
                           THEN old[c].d[k] ELSE new[c].d[k]]]]
    IN  [ref |-> id,
         heap |-> [h EXCEPT ![id] = [t |-> "dict", d |-> merged]],
         writers |-> [w EXCEPT ![id] = w[built]]]

\* a slip: the assignment of line 361 is left out
Replace_Skip(h, w, published, built) == [ref |-> published, heap |-> h, writers |-> w]

\* a slip: the reference is replaced only while the skeleton of __init__ is
\* still the published cache
Replace_FirstWins(h, w, published, built) ==
    IF w[published] = {<<"init", 0>>}
    THEN LET id == FreshId(h)
         IN  [ref |-> id,
              heap |-> [h EXCEPT ![id] = [t |-> "dict", d |-> h[built].d]],
              writers |-> [w EXCEPT ![id] = w[built]]]
    ELSE [ref |-> published, heap |-> h, writers |-> w]

\* line 361: self._cache = dict(new_cache), a new object holding new_cache's
\* items, and one assignment of the reference
Replace(h, w, published, built) ==
    LET id == FreshId(h)
    IN  [ref |-> id,
         heap |-> [h EXCEPT ![id] = AsDict(h[built])],
         writers |-> [w EXCEPT ![id] = w[built]]]

\* lines 361-362: self._cache = dict(new_cache); del new_cache
Swap(t) ==
    /\ pc[t] = "swap"
    /\ LET r == Replace(heap, writers, _cache, loc[t].new_cache)
       IN  Move(t, "stamp", [loc[t] EXCEPT !.new_cache = NoRef],
                r.heap, r.writers, r.ref)
    /\ UNCHANGED <<_cache_timestamp, clock, qr>>

\* line 366: self._cache_timestamp = time.time()
Stamp(t) ==
    /\ pc[t] = "stamp"
    /\ clock' = clock + 1
    /\ _cache_timestamp' = Time(clock + 1, Build(t, loc[t].runs))
    /\ Move(t, "done", loc[t], heap, writers, _cache)
    /\ UNCHANGED qr

\* refresh has returned or raised.  bb_thread_worker logs the exception and
\* starts the next timer; a manual refresh thread ends.
Finish(t) ==
    /\ pc[t] \in {"done", "raised"}
    /\ Move(t, IF t = "sched" THEN "timer" ELSE "idle",
            [NoLocals EXCEPT !.runs = loc[t].runs], heap, writers, _cache)
    /\ UNCHANGED <<_cache_timestamp, clock, qr>>

-----------------------------------------------------------------------------
(* bb_thread_worker and its timer; refresh is one step *)

MaxPeriod == 2
MaxRuns == 3

Min(a, b) == IF a <= b THEN a ELSE b

\* the reader objects a timer can carry in its args
Readers == {"reader_obj", "other"}

\* what bbreader.refresh() can do inside the worker: return, or raise one of
\* the exceptions that leave refresh, all of them subclasses of Exception
RefreshOutcomes == {"returned", "KeyError", "TypeError", "UnboundLocalError"}
ExceptionSubclasses == {"KeyError", "TypeError", "UnboundLocalError"}

NoTimer == [delay |-> -1, reader |-> "none"]

\* a slip: except BBRequestAuthFail in place of except Exception
CaughtByWorker_AuthOnly(exc) == exc = "BBRequestAuthFail"

\* line 43: except Exception as exn
CaughtByWorker(exc) == exc \in ExceptionSubclasses

\* a slip: 'if refresh_period >= 0'
Reschedules_NonNegative(refresh_period) == refresh_period >= 0

\* line 47: if refresh_period > 0
Reschedules(refresh_period) == refresh_period > 0

\* a slip: the timer is started with no delay
NextTimer_NoDelay(refresh_period, bbreader) == [delay |-> 0, reader |-> bbreader]

\* lines 48-50: threading.Timer(refresh_period, bb_thread_worker, args=(bbreader,))
NextTimer(refresh_period, bbreader) == [delay |-> refresh_period, reader |-> bbreader]

\* a slip: the timer is started before the try statement
FirstStatement_Timer == "after"

\* lines 39-41: after reading the period, the worker enters the try statement
FirstStatement == "try"

WorkerParked ==
    wk = [pc |-> "none", period |-> 0, reader_obj |-> "none", timer |-> NoTimer,
          bbreader |-> "none", refresh_period |-> 0, calls |-> 0, started |-> 0,
          runs |-> 0, timers |-> 0, outcome |-> "none"]

\* main, line 72: threading.Timer(0, bb_thread_worker, args=(reader_obj,));
\* period is REFRESH_PERIOD
WorkerInit ==
    \E p \in 0..MaxPeriod, r \in Readers :
        wk = [pc |-> "timer", period |-> p, reader_obj |-> r,
              timer |-> [delay |-> 0, reader |-> r],
              bbreader |-> "none", refresh_period |-> 0, calls |-> 0, started |-> 0,
              runs |-> 0, timers |-> 0, outcome |-> "none"]

\* the pending timer fires: bb_thread_worker(bbreader) is entered and reads
\* the period (lines 39-40); runs counts the runs up to MaxRuns
WorkerRun ==
    /\ wk.pc = "timer"
    /\ wk' = [wk EXCEPT !.pc = FirstStatement, !.bbreader = wk.timer.reader,
                        !.timer = NoTimer, !.refresh_period = wk.period,
                        !.calls = 0, !.started = 0,
                        !.runs = Min(@ + 1, MaxRuns)]
    /\ UNCHANGED <<readerVars, rq, rg, sk, qr, ct, ep>>

\* lines 41-45: bbreader.refresh() returns or raises; a caught exception is
\* logged, an exception that is not caught ends the worker thread
WorkerRefresh ==
    /\ wk.pc = "try"
    /\ \E o \in RefreshOutcomes :
         wk' = [wk EXCEPT !.calls = @ + 1, !.outcome = o,
                          !.pc = IF o = "returned" \/ CaughtByWorker(o)
                                 THEN "after" ELSE "died"]
    /\ UNCHANGED <<readerVars, rq, rg, sk, qr, ct, ep>>

\* lines 47-50: start the next timer when the period is positive
WorkerSchedule ==
    /\ wk.pc = "after"
    /\ wk' = IF Reschedules(wk.refresh_period)
             THEN [wk EXCEPT !.pc = "timer",
                             !.timer = NextTimer(wk.refresh_period, wk.bbreader),
                             !.started = @ + 1,
                             !.timers = Min(@ + 1, MaxRuns)]
             ELSE [wk EXCEPT !.pc = "ended"]
    /\ UNCHANGED <<readerVars, rq, rg, sk, qr, ct, ep>>

-----------------------------------------------------------------------------
(* The presenter's queries on self._bbreader.cache *)

\* an orgConfig.yml with metadata
OrgConfigMeta(n) == Dict([org |-> n, metadata |-> Dict([director |-> "dir"])])

ReaderAnswers ==
    [org |-> {Raise("RequestNotOK"), Return(Text("yaml", OrgConfig(N_a))),
              Return(Text("yaml", OrgConfigMeta(N_a)))},
     spaces |-> {Raise("RequestNotOK"), Return(Text("yaml", Spaces(<<"s1">>)))},
     security |-> {Return(Text("json", SecurityGroup(1)))},
     space_config |-> {Return(Text("yaml", SpaceConfig(1)))},
     listing |-> {<<[slug |-> S_a_org, name |-> S_a_org]>>}]

\* the arguments of a query: a context of the reader and one it has not, an
\* org of the listing and one outside it, a space that is declared and one
\* that is not; NoOrg is the org_name=None of _org_metadata
QContexts == {"c1", "cx"}
QOrgs == {N_a, N_z}
QSpaces == {"s1", "s9"}

Eval(c, r) == [cache |-> c, r |-> r]

\* cache[context].  The CacheObject of __init__ is a defaultdict whose
\* factory is defaultdict: a missing context is stored as an empty
\* defaultdict without a factory.  A published dict(new_cache) raises.
GetContext(P, context) ==
    IF context \in DOMAIN P.d THEN Eval(P, Return(P.d[context]))
    ELSE IF P.t = "CacheObject"
    THEN LET n == [t |-> "defaultdict", k |-> <<>>, d |-> EmptyMap]
         IN  Eval([P EXCEPT !.d = SetKey(@, context, n)], Return(n))
    ELSE Eval(P, Raise("KeyError"))

\* cache[context][org]: no factory at this level
GetEntry(P, context, org) ==
    LET c == GetContext(P, context)
    IN  IF c.r.raised THEN c
        ELSE IF org \in DOMAIN c.r.val.d THEN Eval(c.cache, Return(c.r.val.d[org]))
        ELSE Eval(c.cache, Raise("KeyError"))

\* a slip: entry.get(key, {}) in place of entry[key]
EntryItem_Get(P, context, org, entry, key) ==
    Eval(P, Return(IF HasKey(entry, key) THEN entry[key] ELSE Dict(EmptyMap)))

\* entry[key] on the defaultdict(dict) of line 282: a missing key is stored
\* as an empty dict
EntryItem(P, context, org, entry, key) ==
    IF HasKey(entry, key) THEN Eval(P, Return(entry[key]))
    ELSE Eval([P EXCEPT !.d[context].d[org] = SetKey(@, key, Dict(EmptyMap))],
              Return(Dict(EmptyMap)))

\* cache[context][org][key]
GetItem(P, context, org, key) ==
    LET e == GetEntry(P, context, org)
    IN  IF e.r.raised THEN e ELSE EntryItem(e.cache, context, org, e.r.val, key)

\* cache[context][org][space][key]: the value under space is a dict, or the
\* defaultdict(dict) of line 333 when the space is named 'space'
GetSub(P, context, org, space, key) ==
    LET v == GetItem(P, context, org, space)
        x == v.r.val
    IN  IF v.r.raised THEN v
        ELSE IF x.t \notin {"dict", "defaultdict"} THEN Eval(v.cache, Raise("TypeError"))
        ELSE IF HasKey(x.d, key) THEN Eval(v.cache, Return(x.d[key]))
        ELSE IF x.t = "defaultdict"
        THEN Eval([v.cache EXCEPT !.d[context].d[org][space] =
                       DefaultDict(SetKey(x.d, key, Dict(EmptyMap)))],
                  Return(Dict(EmptyMap)))
        ELSE Eval(v.cache, Raise("KeyError"))

\* x.get(key, default)
Get(x, key, default) ==
    IF x.t \notin {"dict", "defaultdict"} THEN Raise("AttributeError")
    ELSE Return(IF HasKey(x.d, key) THEN x.d[key] ELSE default)

\* 'except KeyError: raise RequestError(...)'
OnKeyError(e, exc) ==
    IF e.r.raised /\ e.r.exc = "KeyError" THEN Eval(e.cache, Raise(exc)) ELSE e

\* _list_contexts: sorted(list(cache.keys())), given as the set of the keys
list_contexts(P) == Eval(P, Return(DOMAIN P.d))

\* _list_orgs
list_orgs(P, context) ==
    LET c == GetContext(P, context)
    IN  OnKeyError(IF c.r.raised THEN c ELSE Eval(c.cache, Return(DOMAIN c.r.val.d)),
                   "RequestError")

\* the dict comprehension of _org_metadata over orgs, from cache P
RECURSIVE MetadataOf(_, _, _, _)
MetadataOf(P, context, orgs, acc) ==
    IF orgs = <<>> THEN Eval(P, Return(acc))
    ELSE LET v == GetItem(P, context, Head(orgs), "org")
             m == Get(v.r.val, "metadata", None)
         IN  IF v.r.raised THEN v
             ELSE IF m.raised THEN Eval(v.cache, m)
             ELSE MetadataOf(v.cache, context, Tail(orgs),
                             Append(acc, <<Head(orgs), m.val>>))

\* _org_metadata: when cache[context] raises with org_name None, the handler
\* formats 'orgs', which was never assigned
org_metadata(P, context, org_name) ==
    IF org_name # NoOrg
    THEN OnKeyError(MetadataOf(P, context, <<org_name>>, <<>>), "RequestError")
    ELSE LET c == GetContext(P, context)
         IN  IF c.r.raised THEN OnKeyError(c, "UnboundLocalError")
             ELSE OnKeyError(MetadataOf(c.cache, context, c.r.val.k, <<>>),
                             "RequestError")

\* the names in cache[context][org]['space'].get('spaces', []): the keys of
\* the empty dict of a defaultdict 'space', the items of a loaded list
SpaceNames(x) ==
    IF x.t = "defaultdict" \/ ~HasKey(x.d, "spaces") THEN {} ELSE Range(x.d.spaces)

\* _list_spaces: the except clause makes a RequestError and does not raise
\* it; 'return rtn' then reads a name that was never assigned
list_spaces(P, context, org) ==
    LET v == GetItem(P, context, org, "space")
    IN  IF v.r.raised THEN OnKeyError(v, "UnboundLocalError")
        ELSE IF v.r.val.t \notin {"dict", "defaultdict"}
        THEN Eval(v.cache, Raise("AttributeError"))
        ELSE Eval(v.cache, Return(SpaceNames(v.r.val)))

\* _get_director
get_director(P, context, org) ==
    LET v == GetItem(P, context, org, "org")
        m == Get(v.r.val, "metadata", Dict(EmptyMap))
        d == Get(m.val, "director", "Unknown")
    IN  IF v.r.raised THEN OnKeyError(v, "RequestError")
        ELSE IF m.raised THEN Eval(v.cache, m)
        ELSE Eval(v.cache, d)

\* _get_org: ['space'] is evaluated before ['org']
get_org(P, context, org) ==
    LET s == GetItem(P, context, org, "space")
        o == GetItem(s.cache, context, org, "org")
    IN  IF s.r.raised THEN OnKeyError(s, "RequestError")
        ELSE IF o.r.raised THEN OnKeyError(o, "RequestError")
        ELSE Eval(o.cache, Return([space |-> s.r.val, org_config |-> o.r.val]))

\* _get_space: [space]['space_config'] is evaluated before [space]['security']
get_space(P, context, org, space) ==
    LET c == GetSub(P, context, org, space, "space_config")
        g == GetSub(c.cache, context, org, space, "security")
    IN  IF c.r.raised THEN OnKeyError(c, "RequestError")
        ELSE IF g.r.raised THEN OnKeyError(g, "RequestError")
        ELSE Eval(g.cache, Return([space_config |-> c.r.val, security_group |-> g.r.val]))

\* the presenter after OrgMgmtREST.__init__, given its cache_refresh argument;
\* rtn is what the last call of _refresh_cache returned
PresenterInit(cache_refresh) ==
    [query |-> "none", args |-> NoArgs, raised |-> FALSE, exc |-> "none",
     rtn |-> "none", cache_refresh |-> cache_refresh]

\* main passes cache_refresh=reader_obj.refresh (org_mgmt.py line 68)
QueryParked == qr = PresenterInit(TRUE)

\* one query runs on the object self._bbreader.cache refers to; what it
\* leaves in that object stays
Answer(name, args, e) ==
    /\ heap' = [heap EXCEPT ![_cache] = e.cache]
    /\ qr' = [qr EXCEPT !.query = name, !.args = args, !.raised = e.r.raised,
                        !.exc = IF e.r.raised THEN e.r.exc ELSE "none"]

ListContexts ==
    /\ Answer("_list_contexts", NoArgs, list_contexts(heap[_cache]))
    /\ UNCHANGED <<writers, _cache, _cache_timestamp, _contexts, clock, pc, loc,
                   rq, rg, sk, wk, ct, ep>>

ListOrgs ==
    /\ \E context \in QContexts :
         Answer("_list_orgs", Args(context, NoOrg, "none"), list_orgs(heap[_cache], context))
    /\ UNCHANGED <<writers, _cache, _cache_timestamp, _contexts, clock, pc, loc,
                   rq, rg, sk, wk, ct, ep>>

OrgMetadata ==
    /\ \E context \in QContexts, org_name \in QOrgs \cup {NoOrg} :
         Answer("_org_metadata", Args(context, org_name, "none"),
                org_metadata(heap[_cache], context, org_name))
    /\ UNCHANGED <<writers, _cache, _cache_timestamp, _contexts, clock, pc, loc,
                   rq, rg, sk, wk, ct, ep>>

ListSpaces ==
    /\ \E context \in QContexts, org \in QOrgs :
         Answer("_list_spaces", Args(context, org, "none"),
                list_spaces(heap[_cache], context, org))
    /\ UNCHANGED <<writers, _cache, _cache_timestamp, _contexts, clock, pc, loc,
                   rq, rg, sk, wk, ct, ep>>

GetDirector ==
    /\ \E context \in QContexts, org \in QOrgs :
         Answer("_get_director", Args(context, org, "none"),
                get_director(heap[_cache], context, org))
    /\ UNCHANGED <<writers, _cache, _cache_timestamp, _contexts, clock, pc, loc,
                   rq, rg, sk, wk, ct, ep>>

GetOrg ==
    /\ \E context \in QContexts, org \in QOrgs :
         Answer("_get_org", Args(context, org, "none"),
                get_org(heap[_cache], context, org))
    /\ UNCHANGED <<writers, _cache, _cache_timestamp, _contexts, clock, pc, loc,
                   rq, rg, sk, wk, ct, ep>>

GetSpace ==
    /\ \E context \in QContexts, org \in QOrgs, space \in QSpaces :
         Answer("_get_space", Args(context, org, space),
                get_space(heap[_cache], context, org, space))
    /\ UNCHANGED <<writers, _cache, _cache_timestamp, _contexts, clock, pc, loc,
                   rq, rg, sk, wk, ct, ep>>

-----------------------------------------------------------------------------
(* RESTObject: the endpoint registry *)

EndpointNames == {"status", "help", "v1", "x"}
Handlers == {"h1", "h2"}
Endpoints == [name : EndpointNames, handler : Handlers]

\* the names of self._default_endpoints
DefaultEndpointNames == {"/", "status", "__empty", "showall", "help"}

\* a slip: the test of the default names is left out
IsDefaultEndpoint_Never(endpoint_name) == FALSE

\* endpoint_name in [ep.name for ep in self._default_endpoints]
IsDefaultEndpoint(endpoint_name) == endpoint_name \in DefaultEndpointNames

\* d without key k
Pop(d, k) == [x \in DOMAIN d \ {k} |-> d[x]]

\* register_endpoint: the new value of _commands, or the exception
register_endpoint(commands, endpoint) ==
    IF endpoint.name \in DOMAIN commands THEN Raise("AlreadyRegistered")
    ELSE Return(SetKey(commands, endpoint.name, endpoint))

\* unregister_endpoint_by_name: the new value of _commands, or the exception
unregister_endpoint_by_name(commands, endpoint_name) ==
    IF IsDefaultEndpoint(endpoint_name) THEN Raise("CannotUnregister")
    ELSE IF endpoint_name \notin DOMAIN commands THEN Raise("NoSuchEndpoint")
    ELSE Return(Pop(commands, endpoint_name))

\* the registry after a call: _commands and what the call did
Called(commands, call, arg, r) ==
    [_commands |-> IF r.raised THEN commands ELSE r.val,
     call |-> call, arg |-> arg, raised |-> r.raised,
     exc |-> IF r.raised THEN r.exc ELSE "none"]

\* the class attribute _commands = {}; RESTObject.__init__ registers its
\* default endpoints with flask only
RegistryStart ==
    [_commands |-> EmptyMap, call |-> "none", arg |-> "none", raised |-> FALSE,
     exc |-> "none"]

\* OrgMgmtREST.__init__: register_multiple_endpoints(self._v1_endpoints)
RegistryOfPresenter ==
    Called(EmptyMap, "register_endpoint", "v1",
           register_endpoint(EmptyMap, [name |-> "v1", handler |-> "h1"]))

RegistryParked == ep = RegistryOfPresenter

RegisterEndpoint ==
    /\ \E endpoint \in Endpoints :
         ep' = Called(ep._commands, "register_endpoint", endpoint.name,
                      register_endpoint(ep._commands, endpoint))
    /\ UNCHANGED <<readerVars, rq, rg, sk, wk, qr, ct>>

UnregisterEndpointByName ==
    /\ \E endpoint_name \in EndpointNames :
         ep' = Called(ep._commands, "unregister_endpoint_by_name", endpoint_name,
                      unregister_endpoint_by_name(ep._commands, endpoint_name))
    /\ UNCHANGED <<readerVars, rq, rg, sk, wk, qr, ct>>

-----------------------------------------------------------------------------
(* BBDirReader.__init__ *)

MaxCtorGets == 3

Ctx1 == <<"c", "1">>
Ctx2 == <<"c", "2">>

\* the context_list argument: a list of names, or a string of names
\* separated by ',' or ':'
Str(s) == [t |-> "str", d |-> s]
ContextLists ==
    {List(<<Ctx1>>), List(<<Ctx1, Ctx2>>), Str(Ctx1), Str(Ctx1 \o <<",">> \o Ctx2),
     Str(Ctx1 \o <<":">> \o Ctx2)}

\* str.replace(',', ':')
ReplaceCommas(s) == [i \in DOMAIN s |-> IF s[i] = "," THEN ":" ELSE s[i]]

\* str.split(':'): cur is the piece being read, acc the pieces read
RECURSIVE Split(_, _, _)
Split(s, cur, acc) ==
    IF s = <<>> THEN Append(acc, cur)
    ELSE IF Head(s) = ":" THEN Split(Tail(s), <<>>, Append(acc, cur))
    ELSE Split(Tail(s), Append(cur, Head(s)), acc)

\* lines 72-77: a string is split, a list is kept
Contexts(context_list) ==
    IF context_list.t = "str" THEN Split(ReplaceCommas(context_list.d), <<>>, <<>>)
    ELSE context_list.d

\* parameters.SysParams(): the configured OAuth client
SysParams ==
    [BB_CLIENT_ID : {"id1", "id2"}, BB_CLIENT_SECRET : {"secret"},
     BB_OAUTH_URL : {"url1"}]

\* a slip: the token is asked for without arguments
TokenArgs_None(o) == <<"None", "None", "None">>

\* the arguments of self._get_oauth_token(...), lines 68-70 and 124-126
TokenArgs(o) == <<o._client_id, o._client_secret, o._auth_url>>

\* what requests.get can do for a listing request: a response of status
\* 200 carries a page as its JSON body
CtorGetOutcomes ==
    {[kind |-> "SSLError"], [kind |-> "OtherError"],
     [kind |-> "response", status |-> 404, body |-> "text"]}
    \cup {[kind |-> "response", status |-> 200, body |-> "{}", page |-> p] :
            p \in ListingPages}

Unset == [t |-> "unset"]

CtorStart(params, context_list) ==
    [pc |-> "start", params |-> params, context_list |-> context_list,
     o |-> [_client_id |-> Unset, _client_secret |-> Unset, _auth_url |-> Unset,
            _auth_token |-> Unset, _contexts |-> Unset, _cache_timestamp |-> Unset,
            _cache |-> Unset],
     events |-> <<>>, todo |-> <<>>, listing |-> EmptyMap, rq |-> RequestIdle,
     rg |-> RestStart, gets |-> 0, exc |-> "none"]

CtorParked == ct = [CtorStart([BB_CLIENT_ID |-> "id1", BB_CLIENT_SECRET |-> "secret",
                               BB_OAUTH_URL |-> "url1"], List(<<>>))
                      EXCEPT !.pc = "parked"]

\* a call of _request(url, return_json=True) with the current token
ListingRequest(r) ==
    [RequestIdle EXCEPT !.pc = "get", !.return_json = TRUE, !.token = r.token,
                        !.issued = r.issued]

\* the for loop of _make_cache: the listing of the next context is asked
\* for, or the cache object is returned and assigned to self._cache
CtorNextContext(c) ==
    IF c.todo # <<>>
    THEN [c EXCEPT !.pc = "get", !.rg = RestStart, !.rq = ListingRequest(c.rq)]
    ELSE [c EXCEPT !.pc = "constructed",
                   !.o._cache = make_cache(c.o._contexts, c.listing)]

\* a _request call of _bb_rest_get has ended with r.out: the loop goes on
\* with another request, or _bb_rest_get returns and _make_cache stores the
\* dictionary of the context
CtorAfterRequest(c, r) ==
    LET out == IF r.out.raised THEN r.out ELSE Return(r.got.page)
        g == RestIteration(c.rg, out)
    IN  IF g.pc = "loop"
        THEN [c EXCEPT !.pc = "get", !.rg = g, !.rq = ListingRequest(r)]
        ELSE IF g.pc = "returned"
        THEN CtorNextContext([c EXCEPT !.rg = g, !.rq = r,
                                       !.listing = SetKey(@, Head(c.todo), g.ret),
                                       !.todo = Tail(@)])
        ELSE [c EXCEPT !.pc = "raised", !.rg = g, !.rq = r, !.exc = g.exc]

CtorInit ==
    \E params \in SysParams, context_list \in ContextLists :
        ct = CtorStart(params, context_list)

\* lines 55-70: the parameters are read and the initial token is acquired;
\* a failing token exchange propagates out of __init__
CtorToken ==
    /\ ct.pc = "start"
    /\ \E ok \in BOOLEAN :
         LET o == [ct.o EXCEPT !._client_id = ct.params.BB_CLIENT_ID,
                               !._client_secret = ct.params.BB_CLIENT_SECRET,
                               !._auth_url = ct.params.BB_OAUTH_URL]
             ev == [ev |-> "token", args |-> TokenArgs(o)]
         IN  ct' = IF ok
                   THEN [ct EXCEPT !.pc = "contexts", !.o = [o EXCEPT !._auth_token = 1],
                                   !.events = Append(@, ev)]
                   ELSE [ct EXCEPT !.pc = "raised", !.o = o, !.exc = "TokenError",
                                   !.events = Append(@, ev)]
    /\ UNCHANGED <<readerVars, rq, rg, sk, wk, qr, ep>>

\* lines 72-79: the contexts, the null timestamp and the call of
\* _make_cache, up to the first listing request
CtorMakeCache ==
    /\ ct.pc = "contexts"
    /\ LET contexts == Contexts(ct.context_list)
       IN  ct' = CtorNextContext(
                   [ct EXCEPT !.o._contexts = contexts,
                              !.o._cache_timestamp = None,
                              !.todo = contexts,
                              !.events = Append(@, [ev |-> "make_cache",
                                                    args |-> <<>>])])
    /\ UNCHANGED <<readerVars, rq, rg, sk, wk, qr, ep>>

\* one requests.get of a listing request, with the clause it selects
CtorGet ==
    /\ ct.pc = "get"
    /\ ct.gets < MaxCtorGets
    /\ \E get \in CtorGetOutcomes :
         LET r == RequestAttempt(ct.rq, get)
             c == [ct EXCEPT !.gets = @ + 1,
                             !.events = Append(@, [ev |-> "get",
                                                   args |-> <<get.kind, ct.rq.retry>>])]
         IN  ct' = IF r.pc = "reauth" THEN [c EXCEPT !.pc = "reauth", !.rq = r]
                   ELSE CtorAfterRequest(c, r)
    /\ UNCHANGED <<readerVars, rq, rg, sk, wk, qr, ep>>

\* lines 122-128 inside __init__: the token is acquired again and the
\* request repeated; a failing token exchange ends the request
CtorReauth ==
    /\ ct.pc = "reauth"
    /\ \E ok \in BOOLEAN :
         LET r == Reacquire(ct.rq, ok)
             c == [ct EXCEPT !.events = Append(@, [ev |-> "token",
                                                   args |-> TokenArgs(ct.o)]),
                             !.o._auth_token = IF ok THEN r.token ELSE @]
         IN  ct' = IF r.pc = "get" THEN [c EXCEPT !.pc = "get", !.rq = r]
                   ELSE CtorAfterRequest(c, r)
    /\ UNCHANGED <<readerVars, rq, rg, sk, wk, qr, ep>>

-----------------------------------------------------------------------------
(* The specifications *)

RequestParked == rq = RequestIdle
RestParked == rg = RestStart
SkelParked ==
    sk = [listing |-> <<>>, pc |-> "slugs", names |-> <<>>, ctx |-> None,
          sluglist |-> <<>>]
ReaderParked ==
    /\ _contexts = <<>>
    /\ heap = [i \in ObjectIds |-> Unalloc]
    /\ writers = [i \in ObjectIds |-> {}]
    /\ _cache = NoRef
    /\ _cache_timestamp = None
    /\ clock = 0
    /\ pc = [t \in Threads |-> "idle"]
    /\ loc = [t \in Threads |-> NoLocals]

\* the scheduled worker and manual refreshes over one reader
Init ==
    /\ ReaderInit(RaceAnswers, {<<"c1">>})
    /\ RequestParked /\ RestParked /\ SkelParked /\ WorkerParked /\ QueryParked
    /\ CtorParked /\ RegistryParked
Next ==
    \/ TimerFires(MaxCycles)
    \/ \E t \in Threads : ManualRefresh(t, MaxCycles)
    \/ \E t \in Threads : MakeCache(t, RaceAnswers)
    \/ \E t \in Threads : LoadOrgConfig(t, RaceAnswers)
    \/ \E t \in Threads : LoadSpaces(t, RaceAnswers)
    \/ \E t \in Threads : LoadPair(t, RaceAnswers)
    \/ \E t \in Threads : Swap(t)
    \/ \E t \in Threads : Stamp(t)
    \/ \E t \in Threads : Finish(t)
Spec == Init /\ [][Next]_vars

\* the manual trigger of a presenter built with or without a refresh
\* callback, while the scheduled worker refreshes
InitTrigger ==
    /\ ReaderInit(RaceAnswers, {<<"c1">>})
    /\ RequestParked /\ RestParked /\ SkelParked /\ WorkerParked
    /\ CtorParked /\ RegistryParked
    /\ \E cache_refresh \in BOOLEAN : qr = PresenterInit(cache_refresh)
SpecTrigger == InitTrigger /\ [][Next]_vars

\* one refresh cycle over two contexts whose listings are paginated
InitListing ==
    /\ ReaderInit(ListingAnswers, {<<"c1", "c2">>})
    /\ RequestParked /\ RestParked /\ SkelParked /\ WorkerParked /\ QueryParked
    /\ CtorParked /\ RegistryParked
NextListing ==
    \/ TimerFires(1)
    \/ MakeCachePaged("sched", ListingRuns)
    \/ LoadOrgConfig("sched", ListingAnswers)
    \/ LoadSpaces("sched", ListingAnswers)
    \/ LoadPair("sched", ListingAnswers)
    \/ Swap("sched")
    \/ Stamp("sched")
    \/ Finish("sched")
SpecListing == InitListing /\ [][NextListing]_vars

\* the construction of one reader
InitConstruct ==
    /\ CtorInit
    /\ ReaderParked /\ RequestParked /\ RestParked /\ SkelParked /\ WorkerParked
    /\ QueryParked /\ RegistryParked
NextConstruct == CtorToken \/ CtorMakeCache \/ CtorGet \/ CtorReauth
SpecConstruct == InitConstruct /\ [][NextConstruct]_vars

\* calls of register_endpoint and unregister_endpoint_by_name on one registry
InitRegistry ==
    /\ ep = RegistryStart
    /\ ReaderParked /\ RequestParked /\ RestParked /\ SkelParked /\ WorkerParked
    /\ QueryParked /\ CtorParked
NextRegistry == RegisterEndpoint \/ UnregisterEndpointByName
SpecRegistry == InitRegistry /\ [][NextRegistry]_vars

\* one refresh cycle of the scheduled worker over the full file contents
InitRefresh ==
    /\ ReaderInit(FullAnswers, {<<"c1">>})
    /\ RequestParked /\ RestParked /\ SkelParked /\ WorkerParked /\ QueryParked
    /\ CtorParked /\ RegistryParked
NextRefresh ==
    \/ TimerFires(1)
    \/ MakeCache("sched", FullAnswers)
    \/ LoadOrgConfig("sched", FullAnswers)
    \/ LoadSpaces("sched", FullAnswers)
    \/ LoadPair("sched", FullAnswers)
    \/ Swap("sched")
    \/ Stamp("sched")
    \/ Finish("sched")
SpecRefresh == InitRefresh /\ [][NextRefresh]_vars

\* one refresh cycle over a context of three orgs
InitIsolation ==
    /\ ReaderInit(IsolationAnswers, {<<"c1">>})
    /\ RequestParked /\ RestParked /\ SkelParked /\ WorkerParked /\ QueryParked
    /\ CtorParked /\ RegistryParked
NextIsolation ==
    \/ TimerFires(1)
    \/ MakeCache("sched", IsolationAnswers)
    \/ LoadOrgConfig("sched", IsolationAnswers)
    \/ LoadSpaces("sched", IsolationAnswers)
    \/ LoadPair("sched", IsolationAnswers)
    \/ Swap("sched")
    \/ Stamp("sched")
    \/ Finish("sched")
SpecIsolation == InitIsolation /\ [][NextIsolation]_vars

InitRequest ==
    /\ RequestInit
    /\ ReaderParked /\ RestParked /\ SkelParked /\ WorkerParked /\ QueryParked
    /\ CtorParked /\ RegistryParked
NextRequest == RequestCall \/ RequestGet \/ RequestReauth
SpecRequest == InitRequest /\ [][NextRequest]_vars

InitRest ==
    /\ RestInit
    /\ ReaderParked /\ RequestParked /\ SkelParked /\ WorkerParked /\ QueryParked
    /\ CtorParked /\ RegistryParked
NextRest == RestPage
SpecRest == InitRest /\ [][NextRest]_vars

InitSkeleton ==
    /\ SkelInit
    /\ ReaderParked /\ RequestParked /\ RestParked /\ WorkerParked /\ QueryParked
    /\ CtorParked /\ RegistryParked
\* line 316 of refresh on the skeleton of the context
SkelSlugList ==
    /\ sk.pc = "made"
    /\ sk' = [sk EXCEPT !.pc = "slugs", !.sluglist = SlugList(sk.ctx)]
    /\ UNCHANGED <<readerVars, rq, rg, wk, qr, ct, ep>>

NextSkeleton == SkelGetRepoNames \/ SkelMakeCache \/ SkelSlugList
SpecSkeleton == InitSkeleton /\ [][NextSkeleton]_vars

\* the presenter's queries while the scheduled worker refreshes
InitReaders ==
    /\ ReaderInit(ReaderAnswers, {<<"c1">>})
    /\ RequestParked /\ RestParked /\ SkelParked /\ WorkerParked /\ QueryParked
    /\ CtorParked /\ RegistryParked
NextReaders ==
    \/ TimerFires(1)
    \/ MakeCache("sched", ReaderAnswers)
    \/ LoadOrgConfig("sched", ReaderAnswers)
    \/ LoadSpaces("sched", ReaderAnswers)
    \/ LoadPair("sched", ReaderAnswers)
    \/ Swap("sched")
    \/ Stamp("sched")
    \/ Finish("sched")
    \/ ListContexts
    \/ ListOrgs
    \/ OrgMetadata
    \/ ListSpaces
    \/ GetDirector
    \/ GetOrg
    \/ GetSpace
SpecReaders == InitReaders /\ [][NextReaders]_vars

\* the worker of main and its timers.  A started timer fires once its delay
\* has passed, refresh is taken to end (by returning or by raising), and the
\* statements after it run: each step is taken once it can be.
InitWorker ==
    /\ WorkerInit
    /\ ReaderParked /\ RequestParked /\ RestParked /\ SkelParked /\ QueryParked
    /\ CtorParked /\ RegistryParked
NextWorker == WorkerRun \/ WorkerRefresh \/ WorkerSchedule
SpecWorker ==
    /\ InitWorker
    /\ [][NextWorker]_vars
    /\ WF_vars(WorkerRun)
    /\ WF_vars(WorkerRefresh)
    /\ WF_vars(WorkerSchedule)

-----------------------------------------------------------------------------
(* Claims on _get_repo_names and _make_cache (SpecSkeleton) *)

\* the repositories of the listing whose display name ends with '-org'
NamedOrg == {i \in DOMAIN sk.listing : endswith(sk.listing[i].name, term)}
\* those of them whose slug ends with '-org' too
SluggedOrg == {i \in NamedOrg : endswith(sk.listing[i].slug, term)}
\* lowercase the slug and strip its '-org' suffix, if it has one
StrippedLower(slug) ==
    IF endswith(lower(slug), term)
    THEN SubSeq(lower(slug), 1, Len(slug) - Len(term))
    ELSE lower(slug)

\* C10 (as stated): the skeleton keys are exactly the lowercased, '-org'-
\* stripped slugs of the repositories whose display name ends with '-org',
\* each such repository contributing a key.
C10_KeysOfNamedOrgs ==
    sk.pc = "made" =>
        /\ Range(sk.ctx.k) = {StrippedLower(sk.listing[i].slug) : i \in NamedOrg}
        /\ \A i \in NamedOrg : StrippedLower(sk.listing[i].slug) \in DOMAIN sk.ctx.d

\* C10 (amended): the skeleton keys are exactly the lowercased, '-org'-
\* stripped slugs of the repositories whose display name and whose slug both
\* end with '-org' (compared case-sensitively, before lowercasing); every
\* such repository contributes a key and no other repository does.
C10_KeysOfNamedSluggedOrgs ==
    sk.pc = "made" =>
        /\ Range(sk.ctx.k) = {StrippedLower(sk.listing[i].slug) : i \in SluggedOrg}
        /\ DOMAIN sk.ctx.d = Range(sk.ctx.k)
        /\ \A key \in DOMAIN sk.ctx.d : sk.ctx.d[key] = EmptyMap

\* a listing with a repository that gives a key and one named '-org' whose
\* slug lacks the suffix
C10_Witness ==
    /\ sk.pc = "made"
    /\ SluggedOrg # {}
    /\ NamedOrg \ SluggedOrg # {}
    /\ sk.ctx.k # <<>>

-----------------------------------------------------------------------------
(* Claims on _bb_rest_get (SpecRest) *)

RECURSIVE Flatten(_)
Flatten(pages) == IF pages = <<>> THEN <<>> ELSE Head(pages) \o Flatten(Tail(pages))

\* the call has returned after page requests that all succeeded
RestAllPagesSucceeded == rg.pc = "returned" /\ rg.exc = "none" /\ rg.nreq >= 1

\* C8: when every page request succeeds and all pages but the last report
\* isLastPage = false, _bb_rest_get returns the concatenation of the pages'
\* values in page order.
C8_ReturnsConcatenation ==
    RestAllPagesSucceeded =>
        /\ Len(rg.pages) = rg.nreq
        /\ rg.ret = Flatten(rg.pages)

\* two pages or more, each with an item
C8_Witness ==
    /\ RestAllPagesSucceeded
    /\ rg.nreq >= 2
    /\ \A i \in DOMAIN rg.pages : rg.pages[i] # <<>>
    /\ rg.pages[1] # rg.pages[2]

\* C9 (as stated): a page request failing with BBRequestAuthFail or
\* RequestNotOK makes _bb_rest_get return the empty sequence, however many
\* earlier pages succeeded.
C9_FailureReturnsEmpty ==
    (rg.pc = "returned" /\ rg.exc \in {"BBRequestAuthFail", "RequestNotOK"})
        => rg.ret = <<>>

\* a later page fails after an earlier page gave an item: the item is returned
C9_Witness ==
    /\ rg.pc = "returned"
    /\ rg.exc \in {"BBRequestAuthFail", "RequestNotOK"}
    /\ rg.nreq >= 2
    /\ rg.ret # <<>>
    /\ rg.ret = Flatten(rg.pages)

-----------------------------------------------------------------------------
(* Claims on _request (SpecRequest) *)

\* the call has ended and every GET attempt of it raised SSLError
RequestAllSSL == rq.pc \in {"returned", "raised"} /\ rq.gets >= 1 /\ rq.ssl = rq.gets

\* C7 (as stated): a call in which every GET attempt raises SSLError makes
\* exactly two GET attempts and one token re-acquisition, then fails with
\* BBRequestAuthFail.
C7_TwoGetsThenAuthFail ==
    RequestAllSSL =>
        /\ rq.gets = 2
        /\ rq.reauths = 1
        /\ rq.out = Raise("BBRequestAuthFail")

\* C7 (amended): no call makes more than two GET attempts or more than one
\* token re-acquisition.  A call in which every GET attempt raises SSLError
\* re-acquires the token once; when the re-acquisition returns, the call makes
\* its second GET and fails with BBRequestAuthFail; when the re-acquisition
\* itself fails, its error propagates after the single GET.
C7_BoundedRetry ==
    /\ rq.gets <= 2
    /\ rq.reauths <= 1
    /\ RequestAllSSL =>
         /\ rq.reauths = 1
         /\ IF rq.retry
            THEN rq.gets = 2 /\ rq.out = Raise("BBRequestAuthFail")
            ELSE rq.gets = 1 /\ rq.out = Raise("TokenError")

\* both GET attempts raised SSLError
C7_Witness ==
    /\ RequestAllSSL
    /\ rq.gets = 2
    /\ rq.out = Raise("BBRequestAuthFail")

-----------------------------------------------------------------------------
(* Claims on refresh: what readers see (Spec) *)

\* the object BBDirReader.cache returns
Visible == heap[_cache]

\* some org entry of cache object c holds loaded data
HasOrgData(c) ==
    \E ctx \in DOMAIN c.d : \E r \in DOMAIN c.d[ctx].d : HasKey(c.d[ctx].d[r], "org")

\* the three loops of refresh have run to their end
LoopsDone(l) == l.spaces = <<>> /\ l.sluglist = <<>> /\ l.ctxs = <<>>

\* every org of the skeleton of c has had its orgConfig.yml requested
AllOrgsProcessed(l, c) ==
    \A ctx \in DOMAIN c.d : \A k \in Range(c.d[ctx].k) :
        \E j \in DOMAIN l.log :
            /\ l.log[j].file = "orgConfig.yml"
            /\ l.log[j].context = ctx
            /\ l.log[j].slug = k \o term

\* the step is one of thread t
StepOf(t) == pc'[t] # pc[t] \/ loc'[t] # loc[t]

-----------------------------------------------------------------------------
(* Claims on refresh: one cycle (SpecRefresh, SpecIsolation) *)

Last(s) == s[Len(s)]

\* the file loads of the cycle of the scheduled worker, in order
RefreshLog == loc["sched"].log

\* the cycle has replaced the published cache and has not yet been cleared
Published == pc["sched"] \in {"stamp", "done"}

\* the keys of an org entry that name spaces
SpaceKeys(entry) == DOMAIN entry \ {"org", "space"}

\* both fields loaded, or both null
Paired(e) ==
    \/ e["security"] = None /\ e["space_config"] = None
    \/ e["security"] # None /\ e["space_config"] # None

\* record i is the security-group.json load of a space
IsPairLoad(i) == RefreshLog[i].file = "security-group.json"

\* both files of the space of record i loaded
PairLoaded(i) ==
    /\ RefreshLog[i].ok
    /\ i < Len(RefreshLog)
    /\ RefreshLog[i + 1].file = "spaceConfig.yml"
    /\ RefreshLog[i + 1].ok

\* no later pair of loads stores into the same space entry, and no later
\* store of `org` and `space` (made once spaces.yml was requested) replaces it
LastPairLoad(i) ==
    /\ IsPairLoad(i)
    /\ \A j \in DOMAIN RefreshLog :
          (j > i /\ IsPairLoad(j)) =>
             \/ RefreshLog[j].context # RefreshLog[i].context
             \/ RefreshLog[j].repo # RefreshLog[i].repo
             \/ RefreshLog[j].space # RefreshLog[i].space
    /\ \A j \in DOMAIN RefreshLog :
          (j > i /\ RefreshLog[j].file = "spaces.yml"
                 /\ RefreshLog[i].space \in {"org", "space"}) =>
             \/ RefreshLog[j].context # RefreshLog[i].context
             \/ RefreshLog[j].repo # RefreshLog[i].repo

\* C3: in every published cache each space entry has `security` and
\* `space_config` both loaded or both null; after a cycle, the entry of each
\* space holds the two loaded values when both loads succeeded and two nulls
\* when either failed.
C3_PairedSpaceFiles ==
    /\ \A ctx \in DOMAIN Visible.d : \A r \in DOMAIN Visible.d[ctx].d :
          \A s \in SpaceKeys(Visible.d[ctx].d[r]) : Paired(Visible.d[ctx].d[r][s].d)
    /\ Published =>
          \A i \in DOMAIN RefreshLog :
             LastPairLoad(i) =>
                LET rec == RefreshLog[i]
                    e == Visible.d[rec.context].d[rec.repo][rec.space].d
                IN  IF PairLoaded(i)
                    THEN /\ e["security"] = rec.val
                         /\ e["space_config"] = RefreshLog[i + 1].val
                    ELSE /\ e["security"] = None
                         /\ e["space_config"] = None

\* a published cache with one space whose two files loaded and another whose
\* security-group.json loaded and whose spaceConfig.yml failed
C3_Witness ==
    /\ Published
    /\ \E i, j \in DOMAIN RefreshLog :
          /\ LastPairLoad(i) /\ PairLoaded(i)
          /\ LastPairLoad(j) /\ RefreshLog[j].ok /\ ~PairLoaded(j)
          /\ RefreshLog[i].repo = RefreshLog[j].repo

\* record i is an orgConfig.yml load; it failed; it gave a mapping that
\* declares an org
IsOrgLoad(i) == RefreshLog[i].file = "orgConfig.yml"
OrgLoadFailed(i) == IsOrgLoad(i) /\ ~RefreshLog[i].ok
Declares(i) ==
    /\ IsOrgLoad(i)
    /\ RefreshLog[i].ok
    /\ RefreshLog[i].val.t = "dict"
    /\ HasKey(RefreshLog[i].val.d, "org")
DeclaredKey(i) == lower(RefreshLog[i].val.d.org)

\* the spaces.yml load that follows orgConfig.yml load i succeeded
SpacesLoaded(i) ==
    /\ i < Len(RefreshLog)
    /\ RefreshLog[i + 1].file = "spaces.yml"
    /\ RefreshLog[i + 1].ok

\* every file requested for the org of record i loaded
OwnFilesLoad(i) ==
    /\ Declares(i)
    /\ SpacesLoaded(i)
    /\ \A j \in DOMAIN RefreshLog :
          (RefreshLog[j].context = RefreshLog[i].context
              /\ RefreshLog[j].slug = RefreshLog[i].slug) => RefreshLog[j].ok

\* the `space` value of an org whose spaces.yml failed, after the loop header
\* has looked up its 'spaces'
DefaultSpace == [t |-> "defaultdict", d |-> [spaces |-> [t |-> "dict", d |-> <<>>]]]

\* the org of record i is in the published cache, under its declared
\* identifier, with its `org` and `space` data
Present(i) ==
    LET ctx == Visible.d[RefreshLog[i].context].d
        key == DeclaredKey(i)
    IN  /\ key \in DOMAIN ctx
        /\ HasKey(ctx[key], "org")
        /\ ctx[key]["org"] = RefreshLog[i].val
        /\ HasKey(ctx[key], "space")
        /\ ctx[key]["space"] = IF SpacesLoaded(i) THEN RefreshLog[i + 1].val
                               ELSE DefaultSpace

\* a later org of the same context declares the identifier of record i
Overwritten(i) ==
    \E j \in DOMAIN RefreshLog :
        /\ j > i
        /\ Declares(j)
        /\ RefreshLog[j].context = RefreshLog[i].context
        /\ DeclaredKey(j) = DeclaredKey(i)

\* every org of the skeleton other than that of record x had its
\* orgConfig.yml requested
OthersRequested(x) ==
    \A k \in Range(Visible.d[RefreshLog[x].context].k) :
        k \o term # RefreshLog[x].slug =>
            \E j \in DOMAIN RefreshLog :
                /\ IsOrgLoad(j)
                /\ RefreshLog[j].context = RefreshLog[x].context
                /\ RefreshLog[j].slug = k \o term

\* C4 (as stated): when the orgConfig.yml load of an org X fails, every other
\* org of the context whose own files load is present with its `org` and
\* `space` data in the cache the cycle publishes.
C4_OthersPresent ==
    Published =>
        \A x \in DOMAIN RefreshLog :
            OrgLoadFailed(x) =>
                \A y \in DOMAIN RefreshLog \ {x} : OwnFilesLoad(y) => Present(y)

\* C4 (amended): when the orgConfig.yml load of an org X fails, the
\* orgConfig.yml of every other org of the context is still requested, and
\* every other org whose own files load is present, under its lowercased
\* declared identifier, with its `org` and `space` data in the cache the
\* cycle publishes, unless a later org of the same context declares the same
\* identifier (whose data then replaces it).
C4_FailureIsolated ==
    Published =>
        \A x \in DOMAIN RefreshLog :
            OrgLoadFailed(x) =>
                /\ OthersRequested(x)
                /\ \A y \in DOMAIN RefreshLog \ {x} :
                      (OwnFilesLoad(y) /\ ~Overwritten(y)) => Present(y)

\* the first org's orgConfig.yml failed, and the two orgs after it loaded and
\* are present in the published cache
C4_Witness ==
    /\ Published
    /\ OrgLoadFailed(1)
    /\ \E y, z \in DOMAIN RefreshLog :
          /\ y < z
          /\ OwnFilesLoad(y) /\ Present(y)
          /\ OwnFilesLoad(z) /\ Present(z)
          /\ DeclaredKey(y) # DeclaredKey(z)

\* the declared identifier of the org being processed is no skeleton key
DeclaredOutsideSkeleton(l, c) ==
    /\ l.log # <<>>
    /\ Last(l.log).file = "spaces.yml"
    /\ Last(l.log).repo \notin Range(c.d[Last(l.log).context].k)

\* C5 (as stated): no outcome of loading a file aborts a refresh cycle.
C5_NoLoadOutcomeAborts == pc["sched"] # "raised"

\* a spaces.yml that loads as a mapping without `spaces`, for an org whose
\* declared identifier is a skeleton key, has aborted the cycle; the
\* published cache is still the skeleton and no timestamp is recorded
C5_Witness ==
    /\ pc["sched"] = "raised"
    /\ loc["sched"].exc = "KeyError"
    /\ Last(RefreshLog).file = "spaces.yml"
    /\ Last(RefreshLog).ok
    /\ ~DeclaredOutsideSkeleton(loc["sched"], heap[loc["sched"].new_cache])
    /\ _cache = 1
    /\ _cache_timestamp = None

\* C6 (as stated): when the declared identifier of an org differs from every
\* skeleton key of its context, refresh stores the org's `org` and `space`
\* under a new entry with the declared key and leaves the skeleton entry of
\* the slug empty.
C6_DeclaredKeyStored ==
    LET l == loc["sched"]
        c == IF l.new_cache # NoRef THEN heap[l.new_cache] ELSE Visible
    IN  DeclaredOutsideSkeleton(l, c) =>
            LET rec == Last(l.log)
                ctx == c.d[rec.context].d
            IN  /\ pc["sched"] # "raised"
                /\ rec.repo \in DOMAIN ctx
                /\ HasKey(ctx[rec.repo], "org")
                /\ HasKey(ctx[rec.repo], "space")
                /\ ctx[StrippedLower(rec.slug)] = EmptyMap

\* the store under a declared key that is no skeleton key has raised KeyError
C6_Witness ==
    /\ pc["sched"] = "raised"
    /\ loc["sched"].exc = "KeyError"
    /\ DeclaredOutsideSkeleton(loc["sched"], heap[loc["sched"].new_cache])
    /\ ~HasOrgData(heap[loc["sched"].new_cache])

\* the skeleton key of the slug of a load record
SlugKey(slug) == SliceOff(slug, Len(term))

\* record j is another load of the org (context and slug) of record i
SameOrgLoad(i, j) ==
    /\ j # i
    /\ RefreshLog[j].context = RefreshLog[i].context
    /\ RefreshLog[j].slug = RefreshLog[i].slug

\* an org of the context of record i declares key as its identifier
DeclaredInContext(i, key) ==
    \E j \in DOMAIN RefreshLog :
        /\ Declares(j)
        /\ RefreshLog[j].context = RefreshLog[i].context
        /\ DeclaredKey(j) = key

\* C11 (as stated): when the orgConfig.yml load of an org fails, no further
\* file is loaded for it and its skeleton key is in the published cache as an
\* empty container.
C11_FailedOrgEmpty ==
    Published =>
        \A i \in DOMAIN RefreshLog :
            OrgLoadFailed(i) =>
                LET ctx == Visible.d[RefreshLog[i].context].d
                    key == SlugKey(RefreshLog[i].slug)
                IN  /\ \A j \in DOMAIN RefreshLog : ~SameOrgLoad(i, j)
                    /\ key \in DOMAIN ctx
                    /\ ctx[key] = EmptyMap

\* C11 (amended): when the orgConfig.yml load of an org fails, no further
\* file is loaded for it and its skeleton key stays in the published cache;
\* the entry under that key is an empty container unless an org of the same
\* context declares that key as its identifier.
C11_FailedOrgSkipped ==
    Published =>
        \A i \in DOMAIN RefreshLog :
            OrgLoadFailed(i) =>
                LET ctx == Visible.d[RefreshLog[i].context].d
                    key == SlugKey(RefreshLog[i].slug)
                IN  /\ \A j \in DOMAIN RefreshLog : ~SameOrgLoad(i, j)
                    /\ key \in DOMAIN ctx
                    /\ ~DeclaredInContext(i, key) => ctx[key] = EmptyMap

\* the published cache of a cycle in which one org loaded and the
\* orgConfig.yml of the org after it failed: the key of the second is there,
\* empty
C11_Witness ==
    /\ Published
    /\ Len(RefreshLog) >= 3
    /\ OwnFilesLoad(1) /\ Present(1)
    /\ OrgLoadFailed(Len(RefreshLog))
    /\ Visible.d[Last(RefreshLog).context].d[SlugKey(Last(RefreshLog).slug)] = EmptyMap

\* orgConfig.yml load i declared an org and the spaces.yml load after it failed
SpacesFailed(i) ==
    /\ Declares(i)
    /\ i < Len(RefreshLog)
    /\ RefreshLog[i + 1].file = "spaces.yml"
    /\ ~RefreshLog[i + 1].ok

\* no file of a space was requested for the org of record i
NoSpaceFileRequested(i) ==
    \A j \in DOMAIN RefreshLog :
        (RefreshLog[j].context = RefreshLog[i].context
            /\ RefreshLog[j].slug = RefreshLog[i].slug)
        => RefreshLog[j].file \in {"orgConfig.yml", "spaces.yml"}

\* another org of the same context declares the identifier of record i
DeclaredByAnother(i) ==
    \E j \in DOMAIN RefreshLog \ {i} :
        /\ Declares(j)
        /\ RefreshLog[j].context = RefreshLog[i].context
        /\ DeclaredKey(j) = DeclaredKey(i)

\* the entry of the published cache under the identifier record i declares
EntryOf(i) == Visible.d[RefreshLog[i].context].d[DeclaredKey(i)]

\* C12 (as stated): when orgConfig.yml loads and the spaces.yml load fails,
\* the org's entry in the published cache has its `org` data and an empty
\* space list, has no per-space entry, and no per-space file was requested.
C12_OrgWithoutSpaces ==
    Published =>
        \A i \in DOMAIN RefreshLog :
            SpacesFailed(i) =>
                /\ Present(i)
                /\ SpaceKeys(EntryOf(i)) = {}
                /\ NoSpaceFileRequested(i)

\* C12 (amended): when orgConfig.yml loads and the spaces.yml load fails, no
\* per-space file is requested for the org; its entry in the published cache
\* has its `org` data and an empty space list unless a later org of the same
\* context declares the same identifier, and has no per-space entry unless
\* another org of the same context declares the same identifier.
C12_OrgKeptSpacesEmpty ==
    Published =>
        \A i \in DOMAIN RefreshLog :
            SpacesFailed(i) =>
                /\ NoSpaceFileRequested(i)
                /\ ~Overwritten(i) => Present(i)
                /\ ~DeclaredByAnother(i) => SpaceKeys(EntryOf(i)) = {}

\* the published cache of a cycle in which the spaces.yml of the only org
\* declaring its identifier failed: the entry has `org`, the default `space`
\* and no space key
C12_Witness ==
    /\ Published
    /\ \E i \in DOMAIN RefreshLog :
          /\ SpacesFailed(i)
          /\ ~DeclaredByAnother(i)
          /\ Present(i)
          /\ EntryOf(i)["space"] = DefaultSpace
          /\ DOMAIN EntryOf(i) = {"org", "space"}

\* every file load of the cycle succeeded
AllLoadsSucceeded == \A i \in DOMAIN RefreshLog : RefreshLog[i].ok

\* every org declares the skeleton key of its slug
DeclaredAsListed ==
    \A i \in DOMAIN RefreshLog :
        IsOrgLoad(i) => Declares(i) /\ DeclaredKey(i) = SlugKey(RefreshLog[i].slug)

\* the spaces listed by the spaces.yml loaded after orgConfig.yml load i
ListedSpaces(i) == Range(RefreshLog[i + 1].val.d.spaces)

\* C13 (as stated): when every file load succeeds and every declared
\* identifier equals the skeleton key, each org entry of the published cache
\* has the loaded orgConfig.yml value as `org`, the loaded spaces.yml value as
\* `space`, the two loaded values of each listed space under the space's
\* name, and nothing else.
C13_LoadedValuesStored ==
    (Published /\ AllLoadsSucceeded /\ DeclaredAsListed) =>
        /\ \A k \in DOMAIN Visible.d["c1"].d :
              \E i \in DOMAIN RefreshLog : IsOrgLoad(i) /\ DeclaredKey(i) = k
        /\ \A i \in DOMAIN RefreshLog :
              IsOrgLoad(i) =>
                 /\ DOMAIN EntryOf(i) = {"org", "space"} \cup ListedSpaces(i)
                 /\ EntryOf(i)["org"] = RefreshLog[i].val
                 /\ EntryOf(i)["space"] = RefreshLog[i + 1].val
                 /\ \A j \in DOMAIN RefreshLog :
                       (IsPairLoad(j) /\ RefreshLog[j].slug = RefreshLog[i].slug) =>
                          EntryOf(i)[RefreshLog[j].space] =
                             Dict([security |-> RefreshLog[j].val,
                                   space_config |-> RefreshLog[j + 1].val])

\* every load succeeded for an org that lists a space named 'org': the two
\* files of the space are stored inside the org's orgConfig.yml value
C13_Witness ==
    /\ Published
    /\ AllLoadsSucceeded
    /\ DeclaredAsListed
    /\ \E i \in DOMAIN RefreshLog :
          /\ IsOrgLoad(i)
          /\ "org" \in ListedSpaces(i)
          /\ HasKey(EntryOf(i)["org"].d, "security")
          /\ EntryOf(i)["org"] # RefreshLog[i].val

-----------------------------------------------------------------------------
(* Claims on refresh: two refreshes, the timestamp (Spec) *)

\* thread t is inside refresh
InRefresh(t) == pc[t] \in {"refresh", "org", "spaces", "pair", "swap", "stamp"}

\* the next statement of thread t can run
CanStep(t) ==
    ENABLED (\/ MakeCache(t, RaceAnswers)
             \/ LoadOrgConfig(t, RaceAnswers)
             \/ LoadSpaces(t, RaceAnswers)
             \/ LoadPair(t, RaceAnswers)
             \/ Swap(t)
             \/ Stamp(t))

\* thread t has replaced the cache reference in its cycle
HasSwapped(t) == pc[t] \in {"stamp", "done"}

\* C14: with a manual and a scheduled refresh running concurrently, each
\* replacement of the cache reference publishes the cache of the refresh that
\* makes it, whatever the other refresh has published, and no other step
\* changes which cache is published: the published cache is that of the
\* refresh that replaced the reference last.  A refresh is never held up by
\* the other: its next statement can always run.
C14_LastWriterWins ==
    /\ [](\A t \in Threads : InRefresh(t) => CanStep(t))
    /\ [][\A t \in Threads :
            StepOf(t) =>
               IF pc[t] = "swap"
               THEN /\ _cache' # _cache
                    /\ writers'[_cache'] = {Build(t, loc[t].runs)}
                    /\ heap'[_cache'] = AsDict(heap[loc[t].new_cache])
               ELSE /\ _cache' = _cache
                    /\ writers'[_cache'] = writers[_cache]]_vars

\* both refreshes have replaced the reference, the manual one first: the
\* published cache is the scheduled one's, and the two builds loaded
\* different things
C14_Witness ==
    /\ pc["manual"] = "done"
    /\ pc["sched"] = "stamp"
    /\ writers[_cache] = {Build("sched", loc["sched"].runs)}
    /\ loc["manual"].log # loc["sched"].log

\* the published cache is the one thread t's cycle has swapped in
PublishedBy(t) == HasSwapped(t) /\ writers[_cache] = {Build(t, loc[t].runs)}

\* record i of log is an orgConfig.yml load that failed; that declared an org
FailedIn(log, i) == log[i].file = "orgConfig.yml" /\ ~log[i].ok
DeclaresIn(log, i) ==
    /\ log[i].file = "orgConfig.yml"
    /\ log[i].ok
    /\ log[i].val.t = "dict"
    /\ HasKey(log[i].val.d, "org")

\* some org of the cycle with this log declared key k in context ctx
DeclaredIn(log, ctx, k) ==
    \E i \in DOMAIN log :
        DeclaresIn(log, i) /\ log[i].context = ctx /\ lower(log[i].val.d.org) = k

\* C15 (as stated): an org whose orgConfig.yml load fails in a cycle has no
\* data in the cache that cycle publishes, whatever the cache published
\* before held for it.
C15_FailedOrgHasNoData ==
    \A t \in Threads :
        PublishedBy(t) =>
            \A i \in DOMAIN loc[t].log :
                FailedIn(loc[t].log, i) =>
                    Visible.d[loc[t].log[i].context].d[SlugKey(loc[t].log[i].slug)]
                        = EmptyMap

\* C15 (amended): the cache a cycle publishes holds only what that cycle
\* loaded: an entry whose key no org declared in the cycle is empty, whatever
\* the cache published before held under that key, and the `org` of every
\* other entry is an orgConfig.yml value loaded in the cycle.  So an org
\* whose orgConfig.yml load fails in the cycle has no data in it unless
\* another org of the context declares that org's key in the same cycle.
C15_BuiltFromOwnLoads ==
    \A t \in Threads :
        PublishedBy(t) =>
            /\ \A ctx \in DOMAIN Visible.d : \A k \in DOMAIN Visible.d[ctx].d :
                  IF DeclaredIn(loc[t].log, ctx, k)
                  THEN /\ HasKey(Visible.d[ctx].d[k], "org")
                       /\ \E i \in DOMAIN loc[t].log :
                             /\ DeclaresIn(loc[t].log, i)
                             /\ Visible.d[ctx].d[k]["org"] = loc[t].log[i].val
                  ELSE Visible.d[ctx].d[k] = EmptyMap
            /\ \A i \in DOMAIN loc[t].log :
                  (FailedIn(loc[t].log, i)
                      /\ ~DeclaredIn(loc[t].log, loc[t].log[i].context,
                                     SlugKey(loc[t].log[i].slug)))
                  => Visible.d[loc[t].log[i].context].d[SlugKey(loc[t].log[i].slug)]
                         = EmptyMap

\* the manual refresh loaded a-org and published it; the scheduled refresh,
\* whose load of a-org's orgConfig.yml failed, has published after it: the
\* entry of a-org is empty
C15_Witness ==
    /\ HasSwapped("manual")
    /\ \E i \in DOMAIN loc["manual"].log :
          /\ DeclaresIn(loc["manual"].log, i)
          /\ loc["manual"].log[i].slug = S_a_org
    /\ PublishedBy("sched")
    /\ \E i \in DOMAIN loc["sched"].log :
          /\ FailedIn(loc["sched"].log, i)
          /\ loc["sched"].log[i].slug = S_a_org
    /\ Visible.d["c1"].d[N_a] = EmptyMap

\* C17: the status timestamp is null at construction and changes only in
\* the step of a refresh that follows its replacement of the cache
\* reference; so it is null until a refresh has replaced the cache, and
\* whenever it is not null the published cache is a dict built and swapped
\* in by a refresh, not the skeleton of construction.
C17_TimestampAfterSwap ==
    /\ _cache_timestamp = None
    /\ [](_cache_timestamp # None =>
            /\ Build("init", 0) \notin writers[_cache]
            /\ Visible.t = "dict")
    /\ [][_cache_timestamp' # _cache_timestamp =>
            \E t \in Threads :
                /\ HasSwapped(t)
                /\ pc[t] = "stamp"
                /\ pc'[t] = "done"
                /\ _cache' = _cache]_vars

\* the first refresh to finish has just written the timestamp; the cache it
\* swapped in is published
C17_Witness ==
    /\ _cache_timestamp # None
    /\ _cache_timestamp.v = 1
    /\ \E t \in Threads : pc[t] = "done" /\ PublishedBy(t)

-----------------------------------------------------------------------------
(* Claims on the presenter's queries (SpecReaders) *)

\* C16 (as stated): the content of a published cache object never changes;
\* no refresh step and no reader query adds, removes or alters a key or a
\* value of it, and the only change readers see is the replacement of the
\* whole cache.
C16_PublishedNeverChanges ==
    [][_cache' = _cache => heap'[_cache] = heap[_cache]]_vars

\* the cycle whose load of a-org's orgConfig.yml failed has published its
\* cache, and a query that ended normally has left an `org` key in the entry
\* of a-org
C16_Witness ==
    /\ Published
    /\ OrgLoadFailed(1)
    /\ RefreshLog[1].slug = S_a_org
    /\ qr.query = "_get_org"
    /\ ~qr.raised
    /\ HasKey(Visible.d["c1"].d[N_a], "org")
    /\ Visible.d["c1"].d[N_a]["org"] = Dict(EmptyMap)

-----------------------------------------------------------------------------
(* Claims on the scheduled worker (SpecWorker) *)

\* C18: an exception raised by refresh inside bb_thread_worker is caught:
\* the worker goes on to the statement after the try and never ends on an
\* exception; with a period greater than zero it then starts the next
\* timer, so that, every refresh call returning or raising, refresh is
\* called again and again forever.
C18_WorkerSurvivesAndRetries ==
    /\ [](wk.pc # "died")
    /\ [][(wk.pc = "try" /\ wk'.outcome \in ExceptionSubclasses)
              => wk'.pc = "after"]_vars
    /\ [][(wk.pc = "after" /\ wk.refresh_period > 0)
              => (wk'.pc = "timer" /\ wk'.timer # NoTimer)]_vars
    /\ (wk.period > 0 => []<><<WorkerRefresh>>_vars)

\* a refresh call of an earlier run raised, and a later run of the worker is
\* about to call refresh again
C18_Witness ==
    /\ wk.period > 0
    /\ wk.runs >= 2
    /\ wk.pc = "try"
    /\ wk.outcome \in ExceptionSubclasses

\* C19: with a refresh period of zero the worker runs once, calls refresh
\* exactly once in that run and starts no timer: after the timer main
\* started, no timer exists.
C19_ZeroPeriodSingleShot ==
    wk.period = 0 =>
        /\ wk.timers = 0
        /\ wk.runs <= 1
        /\ wk.pc \in {"timer", "try", "after", "ended"}
        /\ wk.pc = "timer" => wk.runs = 0
        /\ wk.pc # "timer" => wk.timer = NoTimer
        /\ wk.pc \in {"after", "ended"} => wk.calls = 1 /\ wk.started = 0

\* the single run of a worker with period zero has ended after a refresh
\* call that raised
C19_Witness ==
    /\ wk.period = 0
    /\ wk.pc = "ended"
    /\ wk.calls = 1
    /\ wk.outcome \in ExceptionSubclasses

\* C20: with a period P > 0 each run of the worker calls refresh exactly
\* once, with no timer pending while it does, and then starts exactly one
\* timer, of delay P, for bb_thread_worker with the reader object the run was
\* given, which is the one main passed.
C20_OneRefreshOneTimer ==
    wk.period > 0 =>
        /\ wk.pc \in {"timer", "try", "after"}
        /\ wk.pc = "try" =>
              /\ wk.calls = 0 /\ wk.started = 0
              /\ wk.timer = NoTimer
              /\ wk.bbreader = wk.reader_obj
        /\ wk.pc = "after" =>
              /\ wk.calls = 1 /\ wk.started = 0
              /\ wk.timer = NoTimer
        /\ (wk.pc = "timer" /\ wk.runs >= 1) =>
              /\ wk.calls = 1 /\ wk.started = 1
              /\ wk.timer = [delay |-> wk.period, reader |-> wk.reader_obj]

\* the second run of a worker with period 2 has started its timer
C20_Witness ==
    /\ wk.period = 2
    /\ wk.runs = 2
    /\ wk.pc = "timer"
    /\ wk.timer.delay = 2
    /\ wk.timer.reader = wk.reader_obj

-----------------------------------------------------------------------------
(* Claims on _request: statuses, transport errors, the token (SpecRequest) *)

\* the step is a GET attempt that was answered by a response
GotResponse == rq.pc = "get" /\ rq'.got.kind = "response"

\* the GET attempt ended the call with RequestNotOK: nothing was retried and
\* no token was asked for
FailsNotOK ==
    /\ rq'.pc = "raised"
    /\ rq'.out = Raise("RequestNotOK")
    /\ rq'.gets = rq.gets + 1
    /\ rq'.reauths = rq.reauths
    /\ rq'.token = rq.token
    /\ rq'.issued = rq.issued

\* the text of the body, or the JSON value it denotes
BodyAsRequested(rsp, return_json) ==
    IF return_json THEN [json |-> rsp.body] ELSE [text |-> rsp.body]

\* C26 (as stated): a GET answered with a status other than 200 makes
\* _request fail with RequestNotOK without retry and without re-acquiring
\* the token, on the first attempt and on the retry alike; a GET answered
\* with 200 makes _request return the body, as text or as parsed JSON.
C26_StatusDecides ==
    [][GotResponse =>
         IF rq'.got.status # 200 THEN FailsNotOK
         ELSE /\ rq'.pc = "returned"
              /\ rq'.out = Return(BodyAsRequested(rq'.got, rq.return_json))]_vars

\* C26 (amended): a GET answered with a status other than 200 makes _request
\* fail with RequestNotOK without retry and without re-acquiring the token,
\* on the first attempt and on the retry alike; a GET answered with 200 makes
\* _request return the body as text, or as parsed JSON when JSON is requested
\* and the body is JSON; when JSON is requested and the body is not JSON the
\* parser's error propagates to the caller.
C26_StatusAndParseDecide ==
    [][GotResponse =>
         IF rq'.got.status # 200 THEN FailsNotOK
         ELSE IF rq.return_json /\ rq'.got.body # "{}"
         THEN rq'.pc = "raised" /\ rq'.out = Raise("JSONDecodeError")
         ELSE /\ rq'.pc = "returned"
              /\ rq'.out = Return(BodyAsRequested(rq'.got, rq.return_json))]_vars

\* a retry attempt answered with 404 has ended the call with RequestNotOK
C26_Witness ==
    /\ rq.pc = "raised"
    /\ rq.retry
    /\ rq.gets = 2
    /\ rq.reauths = 1
    /\ rq.got = [kind |-> "response", status |-> 404, body |-> "{}"]
    /\ rq.out = Raise("RequestNotOK")

\* C27 (as stated): when the GET raises a transport error other than the
\* SSL error, that same error propagates to the caller: no retry, no token
\* re-acquisition, no conversion into another error.
C27_OtherErrorPropagates ==
    [][rq.pc = "get" /\ rq'.got.kind = "OtherError"
         => /\ rq'.pc = "raised"
            /\ rq'.out = Raise("OtherError")
            /\ rq'.gets = rq.gets + 1
            /\ rq'.reauths = rq.reauths
            /\ rq'.token = rq.token]_vars

\* a first attempt that raised another transport error has ended the call
\* with the error of the handler itself
C27_Witness ==
    /\ rq.pc = "raised"
    /\ rq.gets = 1
    /\ rq.reauths = 0
    /\ rq.got = [kind |-> "OtherError"]
    /\ rq.out = Raise("UnboundLocalError")

\* C28: when the first GET of a call raises the SSL error and the single
\* retry is answered with 200, _request returns the retry's body and the
\* retry is sent with the newly acquired token; every GET is sent with the
\* reader's current token, which changes only by a re-acquisition, so every
\* later request uses the new token until the next re-acquisition.
C28_RetryUsesNewToken ==
    /\ [](rq.pc \in {"returned", "raised"} /\ rq.gets = 2 /\ rq.got.kind = "response"
            => /\ rq.ssl = 1
               /\ rq.reauths = 1
               /\ rq.sent = rq.issued
               /\ rq.token = rq.issued
               /\ rq.got.status = 200 => rq.out = Body(rq.got, rq.return_json))
    /\ [][/\ rq.pc = "get" => rq'.sent = rq.token /\ rq'.token = rq.token
          /\ rq.pc = "reauth" /\ rq'.pc = "get"
               => rq'.token = rq.issued + 1 /\ rq'.issued = rq'.token
          /\ rq.pc \notin {"get", "reauth"} => rq'.token = rq.token]_vars

\* the retry of the first call was sent with the second token and its body
\* returned
C28_Witness ==
    /\ rq.pc = "returned"
    /\ rq.calls = 1
    /\ rq.gets = 2
    /\ rq.sent = 2
    /\ rq.got.status = 200
    /\ rq.out = Return([text |-> rq.got.body])

-----------------------------------------------------------------------------
(* Claims on _bb_rest_get: the requests it issues, its outcomes (SpecRest) *)

\* the step issues a page request
IssuesRequest == rg'.nreq = rg.nreq + 1

\* the last response reported isLastPage = true
ReportedLastPage ==
    rg.nreq >= 1 /\ HasKey(rg.rsp, "isLastPage") /\ rg.rsp.isLastPage

\* C24: _bb_rest_get issues its first request with start = 0 and every
\* following request with start equal to the nextPageStart of the response
\* before it; it issues no request after the first response that reports
\* isLastPage = true or after the first failing request: the call has then
\* returned.
C24_FollowsNextPageStart ==
    /\ [][IssuesRequest =>
             /\ rg.pc = "loop"
             /\ rg.exc = "none"
             /\ ~ReportedLastPage
             /\ rg'.start = IF rg.nreq = 0 THEN 0 ELSE rg.rsp.nextPageStart]_vars
    /\ [](rg.exc \in RequestErrors \/ ReportedLastPage => rg.pc = "returned")
    /\ [][rg.pc = "returned" => rg' = rg]_vars

\* three requests, the later ones at the start the responses named, ended by
\* a page that reports isLastPage = true
C24_Witness ==
    /\ rg.pc = "returned"
    /\ rg.exc = "none"
    /\ rg.nreq = 3
    /\ rg.start = 25
    /\ ReportedLastPage

\* C25: _bb_rest_get never raises to its caller: whatever its page requests
\* do (auth failure, status other than 200, any other exception, a response
\* lacking values, isLastPage or nextPageStart), it returns a sequence.
C25_AlwaysReturnsSequence ==
    /\ rg.pc \in {"loop", "returned"}
    /\ rg.pc = "returned" => rg.ret \in Seq(Items)
    /\ rg.exc # "none" => rg.pc = "returned"

\* an exception of no expected class on the second request: the item of the
\* first page is returned
C25_Witness ==
    /\ rg.pc = "returned"
    /\ rg.exc = "Exception"
    /\ rg.nreq = 2
    /\ Len(rg.ret) = 1

-----------------------------------------------------------------------------
(* Claims on refresh: what a failing request does to a cycle (SpecRefresh) *)

\* the request of load i raised an exception that is neither of the two
\* _request raises itself
EscapedOther(i) ==
    /\ RefreshLog[i].answer.raised
    /\ RefreshLog[i].answer.exc \notin {"BBRequestAuthFail", "RequestNotOK"}

\* the declared org of the cycle's current org is no key of its context
UndeclaredRepo ==
    LET l == loc["sched"]
    IN  l.repo \notin DOMAIN heap[l.new_cache].d[l.context].d

\* C21 (as stated): a cycle in which an exception other than the SSL/auth
\* error and the non-200 status escaped _request publishes no cache.
C21_EscapedExceptionAborts ==
    (\E i \in DOMAIN RefreshLog : EscapedOther(i)) => ~Published

\* C21 (amended): an exception other than the SSL/auth error and the non-200
\* status that escapes _request during a refresh does not abort the cycle: the
\* file load fails with BBFileLoadFailure like any other failed load; after
\* such an orgConfig.yml load the cycle goes on, and after such a spaces.yml
\* load it goes on unless the declared org is no key of the context.
C21_EscapedExceptionSwallowed ==
    \A i \in DOMAIN RefreshLog :
        EscapedOther(i) =>
            /\ ~RefreshLog[i].ok
            /\ RefreshLog[i].exc = "BBFileLoadFailure"
            /\ (i = Len(RefreshLog) /\ pc["sched"] = "raised")
                  => /\ RefreshLog[i].file = "spaces.yml"
                     /\ loc["sched"].exc = "KeyError"
                     /\ UndeclaredRepo

\* a published cache of a cycle in which the request of an orgConfig.yml
\* raised the error of the bare except clause and that of a spaces.yml too
C21_Witness ==
    /\ Published
    /\ \E i, j \in DOMAIN RefreshLog :
          /\ EscapedOther(i) /\ RefreshLog[i].file = "orgConfig.yml"
          /\ RefreshLog[i].answer.exc = "UnboundLocalError"
          /\ EscapedOther(j) /\ RefreshLog[j].file = "spaces.yml"

\* the value the text of a file denotes is a mapping or a sequence, for the
\* deserializer asked for
Loadable(text, json_content) ==
    /\ text.syntax \notin {"empty", "bad"}
    /\ json_content => text.syntax = "json"
    /\ text.v.t \in {"dict", "list"}

\* C22: _load_bb_file has two outcomes, whatever its request did: it returns
\* a mapping or a sequence, or it fails with BBFileLoadFailure.  Every failure
\* of the request, every deserialization error and every deserialized value
\* that is no mapping or sequence (the empty file included) ends in
\* BBFileLoadFailure.
C22_ValueOrLoadFailure ==
    \A i \in DOMAIN RefreshLog :
        LET rec == RefreshLog[i]
        IN  /\ rec.exc \in {"none", "BBFileLoadFailure"}
            /\ rec.ok <=> rec.exc = "none"
            /\ rec.ok => rec.val.t \in {"dict", "list"}
            /\ IF rec.answer.raised THEN rec.exc = "BBFileLoadFailure"
               ELSE IF Loadable(rec.answer.val, rec.json_content)
               THEN rec.ok /\ rec.val = rec.answer.val.v
               ELSE rec.exc = "BBFileLoadFailure"

\* one cycle with a failed token exchange, a loaded file and a text that is
\* not JSON where JSON is asked for
C22_Witness ==
    /\ Len(RefreshLog) >= 4
    /\ RefreshLog[1].answer = Raise("TokenError")
    /\ RefreshLog[1].exc = "BBFileLoadFailure"
    /\ RefreshLog[2].ok
    /\ LET rec == Last(RefreshLog)
       IN  /\ rec.json_content
           /\ ~rec.answer.raised
           /\ rec.answer.val.syntax = "yaml"
           /\ rec.exc = "BBFileLoadFailure"

-----------------------------------------------------------------------------
(* Claims on refresh: the order of the file loads (SpecRefresh) *)

FileOf(i) == RefreshLog[i].file

\* the cache object the cycle builds, which the swap publishes
BuiltCache ==
    IF loc["sched"].new_cache # NoRef THEN heap[loc["sched"].new_cache] ELSE Visible

\* the number of orgs of the context of record i whose loads began up to i
OrgRank(i) ==
    Cardinality({m \in 1..i : /\ FileOf(m) = "orgConfig.yml"
                              /\ RefreshLog[m].context = RefreshLog[i].context})

\* record i belongs to the org of the record before it
ContinuesOrg(i) ==
    /\ i > 1
    /\ RefreshLog[i].context = RefreshLog[i - 1].context
    /\ RefreshLog[i].slug = RefreshLog[i - 1].slug

\* the spaces.yml load of the org of record i
SpacesRecOf(i) ==
    CHOOSE j \in 1..i :
        /\ FileOf(j) = "spaces.yml"
        /\ \A m \in (j + 1)..i : FileOf(m) \notin {"orgConfig.yml", "spaces.yml"}

\* the security-group.json loads of the org whose spaces.yml load is j
SecurityLoadsOf(j) ==
    {m \in (j + 1)..Len(RefreshLog) :
        /\ FileOf(m) = "security-group.json"
        /\ \A x \in (j + 1)..m : FileOf(x) # "orgConfig.yml"}

\* the number of spaces of the org of record i whose loads began up to i
SpaceRank(i) ==
    Cardinality({m \in SpacesRecOf(i)..i : FileOf(m) = "security-group.json"})

\* the spaces.yml load j gave a mapping with a list under 'spaces'
ListsSpaces(j) ==
    /\ FileOf(j) = "spaces.yml"
    /\ RefreshLog[j].ok
    /\ RefreshLog[j].val.t = "dict"
    /\ HasKey(RefreshLog[j].val.d, "spaces")

\* load i is at its place: orgConfig.yml of the next slug of the skeleton;
\* spaces.yml after the loaded orgConfig.yml of the same slug;
\* security-group.json, as JSON, of the next listed space; spaceConfig.yml, as
\* YAML, after the security-group.json of the same space
InOrder(i) ==
    LET rec == RefreshLog[i]
        sluglist == SlugList(BuiltCache.d[rec.context])
    IN  /\ \E n \in DOMAIN sluglist : rec.slug = sluglist[n]
        /\ CASE rec.file = "orgConfig.yml" ->
                   /\ ~rec.json_content
                   /\ OrgRank(i) <= Len(sluglist)
                   /\ rec.slug = sluglist[OrgRank(i)]
             [] rec.file = "spaces.yml" ->
                   /\ ~rec.json_content
                   /\ ContinuesOrg(i)
                   /\ Declares(i - 1)
             [] rec.file = "security-group.json" ->
                   /\ rec.json_content
                   /\ ContinuesOrg(i)
                   /\ FileOf(i - 1) # "orgConfig.yml"
                   /\ ListsSpaces(SpacesRecOf(i))
                   /\ LET listed == RefreshLog[SpacesRecOf(i)].val.d.spaces
                      IN  /\ SpaceRank(i) <= Len(listed)
                          /\ rec.space = listed[SpaceRank(i)]
                          /\ FileOf(i - 1) # "spaces.yml"
                                => RefreshLog[i - 1].space = listed[SpaceRank(i) - 1]
             [] rec.file = "spaceConfig.yml" ->
                   /\ ~rec.json_content
                   /\ ContinuesOrg(i)
                   /\ FileOf(i - 1) = "security-group.json"
                   /\ RefreshLog[i - 1].space = rec.space
             [] OTHER -> FALSE

\* load m is followed by the spaceConfig.yml load of its space
FollowedByYaml(m) == m < Len(RefreshLog) /\ FileOf(m + 1) = "spaceConfig.yml"

\* C29 (as stated): for each org, refresh requests orgConfig.yml, then
\* spaces.yml, then for each listed space, in the order of `spaces`,
\* security-group.json as JSON followed by spaceConfig.yml as YAML; spaces.yml
\* is requested only after orgConfig.yml loaded; all loads of an org use the
\* slug '<skeleton key>-org'.
C29_LoadOrder ==
    /\ \A i \in DOMAIN RefreshLog : InOrder(i)
    /\ Published =>
          \A j \in DOMAIN RefreshLog :
             ListsSpaces(j) =>
                /\ Cardinality(SecurityLoadsOf(j)) = Len(RefreshLog[j].val.d.spaces)
                /\ \A m \in SecurityLoadsOf(j) : FollowedByYaml(m)

\* C29 (amended): as stated, except that the spaceConfig.yml of a space is
\* requested only after its security-group.json loaded: a space whose
\* security-group.json load fails has that one load.
C29_LoadOrderPairCut ==
    /\ \A i \in DOMAIN RefreshLog : InOrder(i)
    /\ \A i \in DOMAIN RefreshLog :
          FileOf(i) = "spaceConfig.yml" => RefreshLog[i - 1].ok
    /\ Published =>
          \A j \in DOMAIN RefreshLog :
             ListsSpaces(j) =>
                /\ Cardinality(SecurityLoadsOf(j)) = Len(RefreshLog[j].val.d.spaces)
                /\ \A m \in SecurityLoadsOf(j) : RefreshLog[m].ok <=> FollowedByYaml(m)

\* a published cache of two orgs, the second with two spaces: the first
\* space's security-group.json failed and the second space has both loads
C29_Witness ==
    /\ Published
    /\ Len(RefreshLog) = 7
    /\ FileOf(1) = "orgConfig.yml" /\ FileOf(2) = "spaces.yml"
    /\ FileOf(3) = "orgConfig.yml" /\ FileOf(4) = "spaces.yml"
    /\ RefreshLog[1].slug # RefreshLog[3].slug
    /\ FileOf(5) = "security-group.json" /\ ~RefreshLog[5].ok
    /\ RefreshLog[5].space = "s1"
    /\ FileOf(6) = "security-group.json" /\ RefreshLog[6].space = "s2"
    /\ FileOf(7) = "spaceConfig.yml" /\ RefreshLog[7].space = "s2"

-----------------------------------------------------------------------------
(* Claims on refresh: a cycle that aborts (Spec) *)

\* thread t's call of refresh ends with an exception in this step
Aborts(t) == pc[t] # "raised" /\ pc'[t] = "raised"

\* C30: a refresh cycle that aborts with an exception before its swap leaves
\* the published cache and the status timestamp as they were before it
\* started: no step of a cycle before its swap changes the published
\* reference, the content of the published object or the timestamp, and a
\* cycle aborts only inside its loops, holding its new cache unpublished.
C30_AbortLeavesPublished ==
    /\ [][\A t \in Threads :
            (StepOf(t) /\ pc[t] \notin {"swap", "stamp"}) =>
               /\ _cache' = _cache
               /\ heap'[_cache'] = heap[_cache]
               /\ _cache_timestamp' = _cache_timestamp]_vars
    /\ [][\A t \in Threads :
            Aborts(t) =>
               /\ pc[t] \in {"org", "spaces", "pair"}
               /\ loc[t].new_cache # NoRef
               /\ loc'[t].new_cache = loc[t].new_cache
               /\ loc'[t].new_cache # _cache']_vars
    /\ [](\A t \in Threads : pc[t] = "raised" => loc[t].new_cache \notin {NoRef, _cache})

\* a cycle has aborted with org data in its new cache, while the published
\* cache is still the skeleton of __init__ and there is no timestamp
C30_Witness ==
    \E t \in Threads :
        /\ pc[t] = "raised"
        /\ HasOrgData(heap[loc[t].new_cache])
        /\ writers[_cache] = {Build("init", 0)}
        /\ ~HasOrgData(Visible)
        /\ _cache_timestamp = None

-----------------------------------------------------------------------------
(* Claims on refresh: a failing repository listing (SpecListing) *)

\* the listing calls of the cycle of the scheduled worker, one per context
Listings == loc["sched"].listings

\* a page request of the listing call n failed
ListingFailed(n) == Listings[n].exc # "none"

\* the org keys the listing call n gives its context
ListedKeys(n) == SkeletonKeys(get_repo_names(Listings[n].ret), <<>>)

\* the orgConfig.yml and spaces.yml of record i and i + 1 are stored in the
\* entry of the declared org
OrgStored(c, i) ==
    LET entry == c.d[RefreshLog[i].context].d[DeclaredKey(i)]
    IN  /\ HasKey(entry, "org")
        /\ entry["org"] = RefreshLog[i].val

\* C23 (as stated): when the listing call of a context fails during a refresh,
\* that context is a key of the cache the cycle builds and publishes and maps
\* to zero orgs; the failure does not abort the refresh (a cycle aborts only
\* after a file load), and the other contexts have the orgs of their own
\* listings, with the data the cycle loaded for them.
C23_FailedListingEmptyContext ==
    \A n \in DOMAIN Listings :
        ListingFailed(n) =>
            /\ Listings[n].context \in DOMAIN BuiltCache.d
            /\ BuiltCache.d[Listings[n].context].k = <<>>
            /\ pc["sched"] = "raised" => RefreshLog # <<>>
            /\ \A m \in DOMAIN Listings :
                  m # n => BuiltCache.d[Listings[m].context].k = ListedKeys(m)
            /\ Published =>
                  \A i \in DOMAIN RefreshLog :
                     (RefreshLog[i].context # Listings[n].context
                         /\ Declares(i) /\ i < Len(RefreshLog)
                         /\ FileOf(i + 1) = "spaces.yml") => OrgStored(Visible, i)

\* the second page request of the listing of c1 failed, and the published
\* cache has under c1 the org of the first page, with its loaded data
C23_Witness ==
    /\ Published
    /\ ListingFailed(1)
    /\ Listings[1].context = "c1"
    /\ Listings[1].nreq = 2
    /\ Visible.d["c1"].k = <<N_a>>
    /\ HasKey(Visible.d["c1"].d[N_a], "org")
    /\ ~ListingFailed(2)

-----------------------------------------------------------------------------
(* Claims on refresh: the timestamp and the cache of two refreshes (Spec) *)

\* thread t has replaced the cache reference and not yet written the timestamp
BetweenSwapAndStamp(t) == pc[t] = "stamp"

\* C31 (as stated): in every state where no refresh is between its swap and
\* its timestamp write, the timestamp was written by the cycle that built the
\* published cache (and is null while the skeleton of construction is
\* published), however a manual and a scheduled refresh interleave.
C31_TimestampOfPublishedCache ==
    (\A t \in Threads : ~BetweenSwapAndStamp(t)) =>
        IF _cache_timestamp = None THEN writers[_cache] = {Build("init", 0)}
        ELSE _cache_timestamp.by \in writers[_cache]

\* both refreshes have returned; the published cache is that of the one that
\* swapped last, the timestamp that of the other, which wrote it last
C31_Witness ==
    \E t, u \in Threads :
        /\ t # u
        /\ pc[t] = "done" /\ pc[u] = "done"
        /\ writers[_cache] = {Build(t, loc[t].runs)}
        /\ _cache_timestamp # None
        /\ _cache_timestamp.by = Build(u, loc[u].runs)
        /\ _cache_timestamp.v = 2

-----------------------------------------------------------------------------
(* Claims on the scheduled worker: one run at a time (SpecWorker) *)

\* a run of the worker is executing; a run is pending on a timer
Executing == wk.pc \in {"try", "after"}
Pending == wk.timer # NoTimer

\* C32: scheduled refresh cycles never overlap: the timer of the next run is
\* started only after the refresh call of the current run has returned or
\* raised, and by the last statement of that run, so that at every moment at
\* most one run of the worker is executing or pending on a timer.
C32_OneScheduledRun ==
    /\ [](~(Executing /\ Pending))
    /\ [](Pending <=> wk.pc = "timer")
    /\ [][(~Pending /\ Pending') =>
             /\ wk.pc = "after"
             /\ wk.calls = 1
             /\ wk.outcome \in RefreshOutcomes
             /\ ~Executing']_vars
    /\ [][wk'.calls # wk.calls /\ wk'.calls > 0 => ~Pending /\ ~Pending']_vars

\* the refresh call of the first run has returned and its run has ended; the
\* second run is pending on the timer
C32_Witness ==
    /\ wk.period = 1
    /\ wk.pc = "timer"
    /\ wk.runs = 1
    /\ wk.calls = 1
    /\ wk.outcome = "returned"
    /\ Pending

\* ---------------------------------------------------------------------
\* C33
\* ---------------------------------------------------------------------

\* a step in which _refresh_cache ran and returned
TriggerStep == ManualRefresh("manual", MaxCycles)

\* the scheduled thread is inside a refresh cycle
ScheduledInProgress == pc["sched"] \notin {"timer", "idle"}

\* C33: a manual trigger with a configured callback returns 'Cache refresh
\* in progress' at once: the refresh it started is at its first statement,
\* the published cache and the timestamp are as before, and the scheduled
\* thread is where it was with its locals untouched.  Without a callback
\* the trigger starts nothing, and the manual thread is started by no other
\* step.
C33_TriggerStartsDetachedRefresh ==
    /\ [][TriggerStep =>
            IF qr.cache_refresh
            THEN /\ qr'.rtn = "Cache refresh in progress"
                 /\ pc["manual"] = "idle" /\ pc'["manual"] = "refresh"
                 /\ loc'["manual"].log = <<>>
                 /\ loc'["manual"].new_cache = NoRef
                 /\ pc'["sched"] = pc["sched"] /\ loc'["sched"] = loc["sched"]
                 /\ UNCHANGED <<heap, _cache, _cache_timestamp>>
            ELSE /\ qr'.rtn = "None"
                 /\ UNCHANGED <<heap, writers, _cache, _cache_timestamp, pc, loc>>]_vars
    /\ [][pc["manual"] = "idle" /\ pc'["manual"] # "idle" =>
            qr.cache_refresh /\ TriggerStep]_vars
    /\ [](~qr.cache_refresh => pc["manual"] = "idle")

\* the trigger has returned its message while the scheduled refresh is in
\* the middle of its cycle and the started refresh has not yet run a statement
C33_Witness ==
    /\ qr.cache_refresh /\ qr.rtn = "Cache refresh in progress"
    /\ pc["manual"] = "refresh"
    /\ pc["sched"] \in {"org", "spaces", "pair", "swap", "stamp"}

\* the trigger of a presenter without a callback has returned
C33_WitnessNoCallback ==
    /\ ~qr.cache_refresh /\ qr.query = "_refresh_cache" /\ qr.rtn = "None"
    /\ ScheduledInProgress

\* ---------------------------------------------------------------------
\* C34
\* ---------------------------------------------------------------------

\* the `space` value stored for orgConfig.yml load i: the loaded spaces.yml
\* value, or the default of line 333 (before or after line 338 looked up
\* its 'spaces')
SpaceValuesOf(i) ==
    IF SpacesLoaded(i) THEN {RefreshLog[i + 1].val}
    ELSE {DefaultDict(EmptyMap), DefaultSpace}

\* C34 (as stated): in every published cache, each org entry that has an
\* `org` field holds under `org` the value some org declaring that key
\* loaded from its orgConfig.yml, and under `space` the value that org
\* loaded from its spaces.yml or the empty default, whatever the names of
\* the listed spaces are.
C34_OrgAndSpaceAsLoaded ==
    Published =>
        \A k \in DOMAIN Visible.d["c1"].d :
            HasKey(Visible.d["c1"].d[k], "org") =>
                \E i \in DOMAIN RefreshLog :
                    /\ Declares(i) /\ DeclaredKey(i) = k
                    /\ Visible.d["c1"].d[k]["org"] = RefreshLog[i].val
                    /\ Visible.d["c1"].d[k]["space"] \in SpaceValuesOf(i)

\* the published entry of an org whose spaces.yml lists a space named
\* 'org': the entry has no key beside `org` and `space`, and its `org`
\* value is the orgConfig.yml mapping with both files of the space added
C34_Witness ==
    /\ Published
    /\ \E i \in DOMAIN RefreshLog :
          /\ Declares(i) /\ SpacesLoaded(i)
          /\ RefreshLog[i + 1].val = Spaces(<<"org">>)
          /\ DOMAIN EntryOf(i) = {"org", "space"}
          /\ EntryOf(i)["space"] = RefreshLog[i + 1].val
          /\ DOMAIN EntryOf(i)["org"].d =
                DOMAIN RefreshLog[i].val.d \cup {"security", "space_config"}

\* ---------------------------------------------------------------------
\* C35
\* ---------------------------------------------------------------------

\* C35 (as stated): in every reachable state, before the first refresh has
\* completed as well as after it and after any reader queries, the context
\* keys of the published cache are exactly the configured contexts.
C35_ContextKeysAsConfigured == DOMAIN Visible.d = Range(_contexts)

\* no refresh has replaced the cache of construction, a query naming the
\* unconfigured context 'cx' has returned, and 'cx' is a context key of the
\* published cache
C35_Witness ==
    /\ writers[_cache] = {Build("init", 0)}
    /\ _cache_timestamp = None
    /\ qr.query # "none"
    /\ "cx" \notin Range(_contexts)
    /\ "cx" \in DOMAIN Visible.d
    /\ Visible.t = "CacheObject"

\* ---------------------------------------------------------------------
\* C36
\* ---------------------------------------------------------------------

\* C36 (as stated): the slug refresh forms for each org key of the skeleton
\* is the slug of a listed repository that passed both filters and from
\* which that key is derived.
C36_SlugOfListedRepository ==
    sk.pc = "slugs" =>
        /\ Len(sk.sluglist) = Len(sk.ctx.k)
        /\ \A n \in DOMAIN sk.sluglist :
              \E i \in SluggedOrg :
                  /\ sk.listing[i].slug = sk.sluglist[n]
                  /\ OrgKey(sk.listing[i].slug) = sk.ctx.k[n]

\* the listing holds one repository, named 'a-org' with slug 'A-org'; the
\* skeleton key is 'a' and the slug formed for it is 'a-org', which no
\* listed repository has
C36_Witness ==
    /\ sk.pc = "slugs"
    /\ sk.listing = <<[slug |-> S_A_org, name |-> S_a_org]>>
    /\ sk.ctx.k = <<N_a>>
    /\ sk.sluglist = <<S_a_org>>

\* ---------------------------------------------------------------------
\* C37
\* ---------------------------------------------------------------------

\* a load of orgConfig.yml that gave a mapping without an `org` field
NoOrgField(rec) ==
    /\ rec.file = "orgConfig.yml"
    /\ rec.ok
    /\ rec.val.t = "dict"
    /\ ~HasKey(rec.val.d, "org")

\* the step is a load of orgConfig.yml that gave a mapping without `org`
LoadsNoOrgField ==
    /\ Len(loc'["sched"].log) = Len(RefreshLog) + 1
    /\ NoOrgField(Last(loc'["sched"].log))

\* C37: the step that loads an orgConfig.yml mapping without an `org` field
\* records nothing in any cache object and raises nothing; refresh goes on
\* to the orgConfig.yml of the next slug of the context when there is one,
\* and otherwise to the next context or to the swap.  The request that
\* follows such a load in the cycle is never the org's spaces.yml or a file
\* of one of its spaces.
C37_NoOrgFieldSkipsOrg ==
    /\ [][LoadsNoOrgField =>
            /\ heap' = heap
            /\ pc'["sched"] \in {"org", "swap"}
            /\ loc'["sched"].exc = loc["sched"].exc
            /\ loc["sched"].sluglist # <<>> =>
                  /\ pc'["sched"] = "org"
                  /\ loc'["sched"].slug = Head(loc["sched"].sluglist)
                  /\ loc'["sched"].context = loc["sched"].context]_vars
    /\ [](\A i \in DOMAIN RefreshLog :
            (NoOrgField(RefreshLog[i]) /\ i < Len(RefreshLog)) =>
                /\ RefreshLog[i + 1].file = "orgConfig.yml"
                /\ RefreshLog[i + 1].slug # RefreshLog[i].slug)

\* the published cache of a cycle over the listing b-org, a-org: the
\* orgConfig.yml of b-org was a mapping without `org`, the next request was
\* the orgConfig.yml of a-org, whose data is stored, and the entry of b-org
\* is empty
C37_Witness ==
    /\ Published
    /\ Len(RefreshLog) >= 2
    /\ NoOrgField(RefreshLog[1])
    /\ RefreshLog[1].slug = S_b_org
    /\ Declares(2)
    /\ RefreshLog[2].slug = S_a_org
    /\ DeclaredKey(2) = N_a
    /\ HasKey(Visible.d["c1"].d[N_a], "org")
    /\ Visible.d["c1"].d[N_b] = EmptyMap

\* ---------------------------------------------------------------------
\* C38
\* ---------------------------------------------------------------------

\* the positions of the token acquisitions in the history of __init__
TokenEvents == {i \in DOMAIN ct.events : ct.events[i].ev = "token"}

\* the configured client id, client secret and token URL
ConfiguredArgs ==
    <<ct.params.BB_CLIENT_ID, ct.params.BB_CLIENT_SECRET, ct.params.BB_OAUTH_URL>>

\* event i is the first GET of a listing request and met an SSL error
FirstGetSSLError(i) ==
    /\ ct.events[i].ev = "get"
    /\ ct.events[i].args = <<"SSLError", FALSE>>

\* the constructed reader publishes the skeleton of the listings returned
\* for its contexts, and has a null timestamp
PublishesSkeleton ==
    /\ ct.o._contexts = Contexts(ct.context_list)
    /\ ct.o._cache.t = "CacheObject"
    /\ DOMAIN ct.o._cache.d = Range(ct.o._contexts)
    /\ \A c \in Range(ct.o._contexts) :
          ct.o._cache.d[c] = make_ctx(get_repo_names(ct.listing[c]))
    /\ ct.o._cache_timestamp = None

\* C38 (as stated): a constructed reader has acquired the token exactly
\* once, with the configured arguments and before every listing request and
\* before the skeleton was built; it publishes that skeleton with a null
\* timestamp.
C38_TokenExactlyOnce ==
    ct.pc = "constructed" =>
        /\ Cardinality(TokenEvents) = 1
        /\ ct.events[1] = [ev |-> "token", args |-> ConfiguredArgs]
        /\ PublishesSkeleton

\* C38 (amended): the first step of a construction is a token acquisition
\* with the configured arguments, before _make_cache and before every
\* listing request; every later acquisition has the same arguments and
\* follows at once the first GET of a listing request that met an SSL
\* error, and every such GET is followed by one; the constructed reader
\* publishes the skeleton with a null timestamp.
C38_TokenFirstAndOnSSLError ==
    /\ ct.events # <<>> => ct.events[1] = [ev |-> "token", args |-> ConfiguredArgs]
    /\ \A i \in TokenEvents : ct.events[i].args = ConfiguredArgs
    /\ \A i \in DOMAIN ct.events :
          i > 1 => (i \in TokenEvents <=> FirstGetSSLError(i - 1))
    /\ \A i \in DOMAIN ct.events : ct.events[i].ev = "make_cache" <=> i = 2
    /\ ct.pc = "reauth" <=>
          (ct.events # <<>> /\ FirstGetSSLError(Len(ct.events)))
    /\ ct.pc = "constructed" => PublishesSkeleton

\* a reader constructed with two contexts: the first listing request met an
\* SSL error, the token was acquired a second time and the listing of
\* a-org was returned
C38_Witness ==
    /\ ct.pc = "constructed"
    /\ Cardinality(TokenEvents) = 2
    /\ FirstGetSSLError(3)
    /\ Len(ct.o._contexts) = 2
    /\ ct.o._auth_token = 2
    /\ PublishesSkeleton
    /\ \E c \in Range(ct.o._contexts) : ct.o._cache.d[c].k = <<N_a>>

\* ---------------------------------------------------------------------
\* C39
\* ---------------------------------------------------------------------

\* the six queries that name a context
NamingQueries ==
    {"_list_orgs", "_org_metadata", "_list_spaces", "_get_director", "_get_org",
     "_get_space"}

\* the step is a presenter query: no thread of the reader moves
QueryStep == qr'.query \in NamingQueries /\ pc' = pc /\ loc' = loc

\* the arguments name a context, an org or a space that cache object P
\* does not hold
NamesMissing(P, args) ==
    \/ args.context \notin DOMAIN P.d
    \/ /\ args.org # NoOrg
       /\ args.org \notin DOMAIN P.d[args.context].d
    \/ /\ args.space # "none"
       /\ ~HasKey(P.d[args.context].d[args.org], args.space)

\* C39 (as stated): a query naming a context, org or space that the
\* published cache does not hold ends in RequestError.
C39_MissingNameIsRequestError ==
    [][(QueryStep /\ NamesMissing(heap[_cache], qr'.args)) =>
          qr'.raised /\ qr'.exc = "RequestError"]_vars

\* on the cache a refresh has published, _list_spaces was asked for the org
\* 'z' of context 'c1', which the cache does not hold, and ended in
\* UnboundLocalError
C39_Witness ==
    /\ Published
    /\ qr.query = "_list_spaces"
    /\ qr.args = Args("c1", N_z, "none")
    /\ N_z \notin DOMAIN Visible.d["c1"].d
    /\ qr.raised
    /\ qr.exc = "UnboundLocalError"

\* ---------------------------------------------------------------------
\* C40
\* ---------------------------------------------------------------------

\* the step is a call of register_endpoint / unregister_endpoint_by_name
RegisterStep == ep' # ep /\ ep'.call = "register_endpoint"
UnregisterStep == ep' # ep /\ ep'.call = "unregister_endpoint_by_name"

\* a call of unregister_endpoint_by_name for name n would succeed
CanUnregister(n) == ~unregister_endpoint_by_name(ep._commands, n).raised

\* C40 (as stated): register_endpoint fails, with AlreadyRegistered, exactly
\* when the name is registered; unregister_endpoint_by_name fails with
\* CannotUnregister for a default name and with NoSuchEndpoint for a name
\* that is not registered, and succeeds otherwise; a failing call leaves
\* the registry as it was; every registered endpoint can be unregistered.
C40_RegistryContract ==
    /\ [][RegisterStep =>
            /\ ep'.raised <=> ep'.arg \in DOMAIN ep._commands
            /\ ep'.raised => ep'.exc = "AlreadyRegistered"
            /\ ~ep'.raised => ep'.arg \in DOMAIN ep'._commands]_vars
    /\ [][UnregisterStep =>
            /\ ep'.arg \in DefaultEndpointNames =>
                  ep'.raised /\ ep'.exc = "CannotUnregister"
            /\ (ep'.arg \notin DefaultEndpointNames
                    /\ ep'.arg \notin DOMAIN ep._commands) =>
                  ep'.raised /\ ep'.exc = "NoSuchEndpoint"
            /\ (ep'.arg \notin DefaultEndpointNames
                    /\ ep'.arg \in DOMAIN ep._commands) =>
                  ~ep'.raised /\ ep'._commands = Pop(ep._commands, ep'.arg)]_vars
    /\ [][ep'.raised => ep'._commands = ep._commands]_vars
    /\ [](\A n \in DOMAIN ep._commands : CanUnregister(n))

\* an endpoint named 'status' was registered without error, and the call
\* to unregister it has failed with CannotUnregister
C40_Witness ==
    /\ "status" \in DOMAIN ep._commands
    /\ ep.call = "unregister_endpoint_by_name"
    /\ ep.arg = "status"
    /\ ep.raised
    /\ ep.exc = "CannotUnregister"

====
